---- MODULE Spec2Model ----
(***************************************************************************)
(* The rank-verification pipeline of the 8 Ball Pool account checker:      *)
(* handleMessageCreate (src/src/events/messageCreate.ts), dispatched by    *)
(* client.on('messageCreate') (src/src/bot.ts), with the verification      *)
(* store (DatabaseService, src/unnamed/part_002).                          *)
(*                                                                         *)
(* A handler is one run of handleMessageCreate.  It is an async function:  *)
(* every await is a point where other handlers run, so each action below   *)
(* is one stretch of the handler between two awaits, together with the     *)
(* effect of the awaited call.                                             *)
(***************************************************************************)
EXTENDS Integers, Sequences, FiniteSets

\* The most image attachments one message carries.
MaxAtt == 2

\* The most handlers in flight at once (event-loop tasks of messageCreate).
MaxHandlers == 2

\* JavaScript's undefined, where a number is expected (level?, confidence?).
Undefined == -1

Handlers == 1..MaxHandlers

\* The most direct messages the bot sends (message ids of DM channels).
MaxMsgs == 2

\* The most timers setTimeout creates.
MaxTimers == 3

Msgs == 1..MaxMsgs

\* The most calls of isValidProfileScreenshot followed.
MaxCalls == 3

\* The most users deleteAllBotDMs finds in the cache.
MaxSweepUsers == 2

SweepUsers == 1..MaxSweepUsers

\* The most times shutdown is triggered (SIGINT, SIGTERM, uncaughtException).
MaxShutdowns == 3

Runs == 1..MaxShutdowns

\* The callers of the OCR service: initializeServices (0) and the handlers,
\* through processImage.
OcrCallers == {0} \cup Handlers

Timers == 1..MaxTimers

Users == {"u1", "u2"}

\* The rank tiers of src/config/ranks.json (RankTier of the data model).
RankTable ==
  << [rank_name |-> "Silver", level_min |-> 30, level_max |-> 59, role_id |-> "role_silver"],
     [rank_name |-> "Gold",   level_min |-> 60, level_max |-> 99, role_id |-> "role_gold"] >>

\* The confidences a match may carry (two values: a tie and a strict order).
Confidences == {60, 90}

\* No tier (getRankByName's null).
NullTier ==
  [rank_name |-> "null", level_min |-> Undefined, level_max |-> Undefined, role_id |-> "null"]

\* No matched rank (matchRank's null).
NullRank ==
  [rank_name |-> "null", level_min |-> Undefined, level_max |-> Undefined,
   role_id |-> "null", level_detected |-> Undefined, confidence |-> Undefined]

\* The levels matchRank may read off a screenshot: none (the name path), or
\* a level inside a tier's range (one per tier).
LevelsRead == {Undefined, 42, 75}

\* What rankMatcher.matchRank returns when it matches: the tier, the level it
\* read (a level of the tier's range, or none on the name path) and the
\* confidence.
MatchedRanks ==
  { [rank_name |-> RankTable[x[1]].rank_name, level_min |-> RankTable[x[1]].level_min,
     level_max |-> RankTable[x[1]].level_max, role_id |-> RankTable[x[1]].role_id,
     level_detected |-> x[2], confidence |-> x[3]] :
       x \in { y \in (DOMAIN RankTable) \X LevelsRead \X Confidences :
                 \/ y[2] = Undefined
                 \/ RankTable[y[1]].level_min <= y[2] /\ y[2] <= RankTable[y[1]].level_max } }

\* rankMatcher.getRankByName: the tier of that name, or null.
getRankByName(name) ==
  IF \E i \in DOMAIN RankTable : RankTable[i].rank_name = name
  THEN RankTable[CHOOSE i \in DOMAIN RankTable : RankTable[i].rank_name = name]
  ELSE NullTier

\* No stored record (getVerification's null).
NullRecord == [rank_name |-> "null", level_detected |-> Undefined, role_id_assigned |-> "null"]

\* JavaScript truthiness of an optional number: undefined, 0 (and NaN) are falsy.
Truthy(n) == n # Undefined /\ n # 0

\* JavaScript's (n || 0) for an optional number.
OrZero(n) == IF Truthy(n) THEN n ELSE 0

VARIABLES
  pc,         \* handler -> where the handler stands (which await it is at)
  author,     \* handler -> message.author.id
  pending,    \* handler -> image attachments the for-loop has still to process
  results,    \* handler -> the results array
  bestMatch,  \* handler -> bestMatch (a results entry)
  outcome,    \* handler -> the reconciliation decision taken, "None" before it
  failure,    \* handler -> the collaborator failure that ended the handler
  grants,     \* handler -> role grants applied for this message
  upserts,    \* handler -> store upserts applied for this message
  notice,     \* handler -> the direct message delivered for this message
  msgLive,    \* handler -> the source message still exists in the channel
  store,      \* user -> the user's Verification row
  role,       \* user -> the rank role the guild member holds
  atts,       \* handler -> imageAttachments.size of the message
  failed,     \* handler -> attachments whose download or OCR threw
  sends,      \* handler -> notification sends started for this message
  registered, \* handler -> scheduleDeletion calls made for this message's DM
  deletes,    \* handler -> message.delete() calls made on the source message
  dm,         \* message id -> the direct message: "unsent", "live" or "deleted"
  scheduledDeletions, \* message id -> the timer of its Map entry, 0 without entry
  timer,      \* timer id -> the message its callback deletes, its state, and
              \* the message.delete() calls its callback has made
  drained,    \* cleanup() has been called
  cancelled,  \* message id -> cancelDeletion was called for it, and
              \* scheduleDeletion not since
  ocrText,    \* the text of the last isValidProfileScreenshot call (words)
  classified, \* what that call returned
  hasProfileIndicator, \* the function's local hasProfileIndicator at its return
  seenText,   \* the text of an earlier call, kept to compare
  seenClassified, \* what that earlier call returned
  seenAt,     \* the number of that earlier call (0: none kept)
  calls,      \* calls of isValidProfileScreenshot made
  channel,    \* the verification channel: its messages, the newest last
  ipc,        \* where handleSlashCommand stands on its interaction
  commandName,     \* interaction.commandName
  isUserAdmin,     \* isAdmin(userId)
  isUserModerator, \* isModerator(userId)
  handlerCalled,   \* the command handler invoked for the interaction
  replies,    \* the replies edited into the interaction
  received,   \* the last message handed to handleMessageCreate
  sweepState, \* where deleteAllBotDMs stands
  sweepAt,    \* the turn of its loops it is in (0: none)
  sweepQueue, \* the fetched messages of that turn still to delete
  dmExists,   \* user -> the bot's messages in the user's DM channel
  visited,    \* the turns begun
  listed,     \* <<turn, message>>: the messages the fetches returned
  attempted,  \* <<turn, message>>: the messages message.delete() was called on
  worker,     \* OCRService.worker: 0 for null, else the number of the worker
  initialized, \* OCRService.initialized
  created,    \* calls of createWorker that returned a worker
  ocrPc,      \* caller -> where its call of the OCR service stands
  usedWorker, \* caller -> the worker its recognize call went to
  shPc,       \* run of shutdown() -> where it stands
  steps,      \* the steps of shutdown executed so far: <<run, step>>, in order
  exitCode    \* the code process.exit was called with, Undefined while running

\* What the handlers count of their own run.
counts == <<atts, failed, sends, registered, deletes>>

\* The state of DMCleanupService and of the direct messages.
sched == <<dm, scheduledDeletions, timer, drained, cancelled>>

\* The calls of the classifier.
classifier ==
  <<ocrText, classified, hasProfileIndicator, seenText, seenClassified, seenAt, calls>>

\* The slash command in hand.
interaction == <<ipc, commandName, isUserAdmin, isUserModerator, handlerCalled, replies>>

\* The sweep of the DM channels.
sweep == <<sweepState, sweepAt, sweepQueue, dmExists, visited, listed, attempted>>

\* The OCR service and its callers.
ocr == <<worker, initialized, created, ocrPc, usedWorker>>

\* The runs of shutdown().
shutdown == <<shPc, steps, exitCode>>

\* The message gate and the services around the pipeline.
others == <<received, sweep, ocr, shutdown>>

vars == <<pc, author, pending, results, bestMatch, outcome, failure, grants,
          upserts, notice, msgLive, store, role, counts, sched, classifier,
          channel, interaction, others>>

\* The state of the handlers, the store and the guild roles.
pipeline == <<pc, author, pending, results, bestMatch, outcome, failure, grants,
              upserts, notice, msgLive, store, role, counts>>

\* A timer id setTimeout has not handed out.
NullTimer == [message |-> 0, state |-> "unused", attempts |-> 0]

\* A results entry of a failed processImage; never pushed, bestMatch before the fold.
NullResult ==
  [success |-> FALSE, rank |-> NullRank, level |-> Undefined,
   confidence |-> Undefined, isProfile |-> "undefined"]

Init ==
  /\ pc = [h \in Handlers |-> "idle"]
  /\ author = [h \in Handlers |-> "u1"]
  /\ pending = [h \in Handlers |-> 0]
  /\ results = [h \in Handlers |-> << >>]
  /\ bestMatch = [h \in Handlers |-> NullResult]
  /\ outcome = [h \in Handlers |-> "None"]
  /\ failure = [h \in Handlers |-> "none"]
  /\ grants = [h \in Handlers |-> 0]
  /\ upserts = [h \in Handlers |-> 0]
  /\ notice = [h \in Handlers |-> "none"]
  /\ msgLive = [h \in Handlers |-> FALSE]
  /\ store = [u \in Users |-> NullRecord]
  /\ role = [u \in Users |-> "null"]
  /\ atts = [h \in Handlers |-> 0]
  /\ failed = [h \in Handlers |-> 0]
  /\ sends = [h \in Handlers |-> 0]
  /\ registered = [h \in Handlers |-> 0]
  /\ deletes = [h \in Handlers |-> 0]
  /\ dm = [m \in Msgs |-> "unsent"]
  /\ scheduledDeletions = [m \in Msgs |-> 0]
  /\ timer = [t \in Timers |-> NullTimer]
  /\ drained = FALSE
  /\ cancelled = [m \in Msgs |-> FALSE]
  /\ ocrText = << >>
  /\ classified = FALSE
  /\ hasProfileIndicator = FALSE
  /\ seenText = << >>
  /\ seenClassified = FALSE
  /\ seenAt = 0
  /\ calls = 0
  /\ channel = << >>
  /\ ipc = "idle"
  /\ commandName = "help"
  /\ isUserAdmin = FALSE
  /\ isUserModerator = FALSE
  /\ handlerCalled = "none"
  /\ replies = {}
  /\ received = [bot |-> FALSE, rankChannel |-> FALSE, images |-> 0]
  /\ sweepState = "idle"
  /\ sweepAt = 0
  /\ sweepQueue = {}
  /\ dmExists = [u \in SweepUsers |-> Msgs]
  /\ visited = {}
  /\ listed = {}
  /\ attempted = {}
  /\ worker = 0
  /\ initialized = FALSE
  /\ created = 0
  /\ ocrPc = [c \in OcrCallers |-> "idle"]
  /\ usedWorker = [c \in OcrCallers |-> 0]
  /\ shPc = [r \in Runs |-> "idle"]
  /\ steps = << >>
  /\ exitCode = Undefined

InFlight(h) == pc[h] \notin {"idle", "done"}

\* processImage: download, OCR, isValidProfileScreenshot, matchRank; any throw
\* is caught and gives { success: false }.
processImage(downloaded, extracted, isProfile, matchedRank) ==
  IF ~downloaded \/ ~extracted
  THEN [success |-> FALSE, isProfile |-> "undefined", rank |-> NullRank, level |-> Undefined]
  ELSE IF ~isProfile
  THEN [success |-> FALSE, isProfile |-> "false", rank |-> NullRank, level |-> Undefined]
  ELSE IF matchedRank = NullRank
  THEN [success |-> FALSE, isProfile |-> "true", rank |-> NullRank, level |-> Undefined]
  ELSE [success |-> TRUE, isProfile |-> "undefined", rank |-> matchedRank,
        level |-> matchedRank.level_detected]

\* The body of the for-loop: what one processImage result adds to results.
PushResult(rs, result) ==
  IF result.success /\ result.rank # NullRank
  THEN Append(rs, [success |-> TRUE, rank |-> result.rank, level |-> result.level,
                   confidence |-> result.rank.confidence, isProfile |-> result.isProfile])
  ELSE IF result.isProfile = "false"
  THEN Append(rs, [success |-> FALSE, rank |-> NullRank, level |-> Undefined,
                   confidence |-> Undefined, isProfile |-> "false"])
  ELSE rs

\* The message passed the gate (not a bot, rank channel, n image attachments):
\* a handler starts on it.
Deliver(h, u, n) ==
  /\ ~InFlight(h)
  /\ pc' = [pc EXCEPT ![h] = "process"]
  /\ author' = [author EXCEPT ![h] = u]
  /\ pending' = [pending EXCEPT ![h] = n]
  /\ results' = [results EXCEPT ![h] = << >>]
  /\ bestMatch' = [bestMatch EXCEPT ![h] = NullResult]
  /\ outcome' = [outcome EXCEPT ![h] = "None"]
  /\ failure' = [failure EXCEPT ![h] = "none"]
  /\ grants' = [grants EXCEPT ![h] = 0]
  /\ upserts' = [upserts EXCEPT ![h] = 0]
  /\ notice' = [notice EXCEPT ![h] = "none"]
  /\ msgLive' = [msgLive EXCEPT ![h] = TRUE]
  /\ atts' = [atts EXCEPT ![h] = n]
  /\ failed' = [failed EXCEPT ![h] = 0]
  /\ sends' = [sends EXCEPT ![h] = 0]
  /\ registered' = [registered EXCEPT ![h] = 0]
  /\ deletes' = [deletes EXCEPT ![h] = 0]
  /\ UNCHANGED <<store, role>>

\* ProcessImage with processImage's try/catch lost: a download or OCR error
\* leaves the loop and ends the handler.
ProcessImageThrows(h, downloaded, extracted, isProfile, matchedRank) ==
  /\ pc[h] = "process"
  /\ pending[h] > 0
  /\ results' = [results EXCEPT ![h] =
                   PushResult(@, processImage(downloaded, extracted, isProfile, matchedRank))]
  /\ pending' = [pending EXCEPT ![h] = @ - 1]
  /\ pc' = [pc EXCEPT ![h] =
              IF ~downloaded \/ ~extracted THEN "done"
              ELSE IF pending[h] = 1 THEN "reconcile" ELSE "process"]
  /\ failed' = [failed EXCEPT ![h] = IF ~downloaded \/ ~extracted THEN @ + 1 ELSE @]
  /\ UNCHANGED <<author, bestMatch, outcome, failure, grants, upserts, notice,
                 msgLive, store, role, atts, sends, registered, deletes>>

\* ProcessImage with the loop left at the first not-a-profile image.
ProcessImageBreaks(h, downloaded, extracted, isProfile, matchedRank) ==
  /\ pc[h] = "process"
  /\ pending[h] > 0
  /\ results' = [results EXCEPT ![h] =
                   PushResult(@, processImage(downloaded, extracted, isProfile, matchedRank))]
  /\ pending' = [pending EXCEPT ![h] = @ - 1]
  /\ pc' = [pc EXCEPT ![h] =
              IF pending[h] = 1 \/ (downloaded /\ extracted /\ ~isProfile)
              THEN "reconcile" ELSE "process"]
  /\ failed' = [failed EXCEPT ![h] = IF ~downloaded \/ ~extracted THEN @ + 1 ELSE @]
  /\ UNCHANGED <<author, bestMatch, outcome, failure, grants, upserts, notice,
                 msgLive, store, role, atts, sends, registered, deletes>>

\* One turn of the for-loop: await processImage(attachment), then the push.
ProcessImage(h, downloaded, extracted, isProfile, matchedRank) ==
  /\ pc[h] = "process"
  /\ pending[h] > 0
  /\ results' = [results EXCEPT ![h] =
                   PushResult(@, processImage(downloaded, extracted, isProfile, matchedRank))]
  /\ pending' = [pending EXCEPT ![h] = @ - 1]
  /\ pc' = [pc EXCEPT ![h] = IF pending[h] = 1 THEN "reconcile" ELSE "process"]
  /\ failed' = [failed EXCEPT ![h] = IF ~downloaded \/ ~extracted THEN @ + 1 ELSE @]
  /\ UNCHANGED <<author, bestMatch, outcome, failure, grants, upserts, notice,
                 msgLive, store, role, atts, sends, registered, deletes>>

\* InvalidImages with the batch rejected only when every entry is invalid.
InvalidImagesEvery(rs) ==
  IF \A i \in DOMAIN rs : rs[i].isProfile = "false"
  THEN { i \in DOMAIN rs : rs[i].isProfile = "false" }
  ELSE {}

\* results.filter(r => r.isProfile === false), as the positions kept.
InvalidImages(rs) == { i \in DOMAIN rs : rs[i].isProfile = "false" }

\* results.some(r => r.success && r.rank)
SomeSuccess(rs) == \E i \in DOMAIN rs : rs[i].success /\ rs[i].rank # NullRank

\* BetterOf with >= for >: the last of equal confidences wins.
BetterOfLast(best, current) ==
  IF Truthy(current.confidence) /\ current.confidence >= OrZero(best.confidence)
  THEN current
  ELSE best

\* The callback of results.reduce.
BetterOf(best, current) ==
  IF Truthy(current.confidence) /\ current.confidence > OrZero(best.confidence)
  THEN current
  ELSE best

\* results.reduce(callback) without an initial value, on the first k entries:
\* the fold starts from results[0].
RECURSIVE ReduceTo(_, _)
ReduceTo(rs, k) ==
  IF k = 1 THEN rs[1] ELSE BetterOf(ReduceTo(rs, k - 1), rs[k])

\* results.reduce(...).  Of an empty array, reduce without an initial value
\* throws: the handler ends there with no bestMatch (client.on's catch logs it).
FindBest(rs) == IF Len(rs) = 0 THEN NullResult ELSE ReduceTo(rs, Len(rs))

\* Unreadable with && for || and the negation lost.
UnreadableAnd(rs) == Len(rs) = 0 /\ SomeSuccess(rs)

\* results.length === 0 || !results.some(r => r.success && r.rank)
Unreadable(rs) == Len(rs) = 0 \/ ~SomeSuccess(rs)

\* The synchronous stretch after the loop: the invalid check, the unreadable
\* check, the best-match fold; it ends at the first await of the branch taken.
Reconcile(h) ==
  /\ pc[h] = "reconcile"
  /\ IF InvalidImages(results[h]) # {}
     THEN /\ outcome' = [outcome EXCEPT ![h] = "RejectInvalid"]
          /\ pc' = [pc EXCEPT ![h] = "invalid_dm"]
          /\ UNCHANGED bestMatch
     ELSE IF Unreadable(results[h])
     THEN /\ outcome' = [outcome EXCEPT ![h] = "RejectUnreadable"]
          /\ pc' = [pc EXCEPT ![h] = "unreadable_dm"]
          /\ UNCHANGED bestMatch
     ELSE /\ bestMatch' = [bestMatch EXCEPT ![h] = FindBest(results[h])]
          /\ pc' = [pc EXCEPT ![h] =
                      IF FindBest(results[h]).rank = NullRank THEN "done" ELSE "fetch_member"]
          /\ UNCHANGED outcome
  /\ UNCHANGED <<author, pending, results, failure, grants, upserts, notice,
                 msgLive, store, role, counts>>

\* sendErrorDM of the two rejections decided after the loop; a delivery
\* failure is swallowed.  results is dead from here on.
SendRejectDM(h, delivered) ==
  /\ pc[h] \in {"invalid_dm", "unreadable_dm"}
  /\ notice' = [notice EXCEPT ![h] =
                  IF ~delivered THEN "none"
                  ELSE IF pc[h] = "invalid_dm" THEN "invalid" ELSE "unreadable"]
  /\ pc' = [pc EXCEPT ![h] = "reject_delete"]
  /\ results' = [results EXCEPT ![h] = << >>]
  /\ sends' = [sends EXCEPT ![h] = @ + 1]
  /\ registered' = [registered EXCEPT ![h] = IF delivered THEN @ + 1 ELSE @]
  /\ UNCHANGED <<author, pending, bestMatch, outcome, failure, grants, upserts,
                 msgLive, store, role, atts, failed, deletes>>

\* try { await message.delete() } catch { warn }, the last step of a branch.
DeleteMessage(h, deleted) ==
  /\ pc[h] \in {"reject_delete", "noupgrade_delete", "accept_delete"}
  /\ msgLive' = [msgLive EXCEPT ![h] = @ /\ ~deleted]
  /\ pc' = [pc EXCEPT ![h] = "done"]
  /\ bestMatch' = [bestMatch EXCEPT ![h] = NullResult]
  /\ deletes' = [deletes EXCEPT ![h] = @ + 1]
  /\ UNCHANGED <<author, pending, results, outcome, failure, grants,
                 upserts, notice, store, role, atts, failed, sends, registered>>

\* await message.guild?.members.fetch(author): the member, undefined (the
\* handler logs and returns) or a throw (caught by the handler's catch).
FetchMember(h, fetched) ==
  /\ pc[h] = "fetch_member"
  /\ fetched \in {"member", "undefined", "throws"}
  /\ pc' = [pc EXCEPT ![h] =
              CASE fetched = "member" -> "get_verification"
                [] fetched = "undefined" -> "done"
                [] OTHER -> "error_dm"]
  /\ failure' = [failure EXCEPT ![h] =
                   CASE fetched = "member" -> "none"
                     [] fetched = "undefined" -> "no_member"
                     [] OTHER -> "member_fetch"]
  /\ results' = [results EXCEPT ![h] = << >>]
  /\ bestMatch' = [bestMatch EXCEPT ![h] = IF fetched = "undefined" THEN NullResult ELSE @]
  /\ UNCHANGED <<author, pending, outcome, grants, upserts, notice,
                 msgLive, store, role, counts>>

\* HasHigherRank with a stored rank the table does not know taken as higher.
HasHigherRankUnlessKnown(existingVerification, matchedRank) ==
  /\ existingVerification # NullRecord
  /\ \/ getRankByName(existingVerification.rank_name) = NullTier
     \/ getRankByName(existingVerification.rank_name).level_min > matchedRank.level_min

\* HasHigherRank with >= for >: an equal rank counts as higher.
HasHigherRankOrEqual(existingVerification, matchedRank) ==
  /\ existingVerification # NullRecord
  /\ getRankByName(existingVerification.rank_name) # NullTier
  /\ getRankByName(existingVerification.rank_name).level_min >= matchedRank.level_min

\* HasHigherRank with the comparison turned round.
HasHigherRankFlipped(existingVerification, matchedRank) ==
  /\ existingVerification # NullRecord
  /\ getRankByName(existingVerification.rank_name) # NullTier
  /\ getRankByName(existingVerification.rank_name).level_min < matchedRank.level_min

\* existingRank && existingRank.level_min > matchedRank.level_min
HasHigherRank(existingVerification, matchedRank) ==
  /\ existingVerification # NullRecord
  /\ getRankByName(existingVerification.rank_name) # NullTier
  /\ getRankByName(existingVerification.rank_name).level_min > matchedRank.level_min

\* GetVerification with the return after the higher-rank branch lost: the
\* handler goes on to the role grant.
GetVerificationNoReturn(h, found) ==
  /\ pc[h] = "get_verification"
  /\ IF ~found
     THEN /\ pc' = [pc EXCEPT ![h] = "error_dm"]
          /\ failure' = [failure EXCEPT ![h] = "store_read"]
          /\ UNCHANGED outcome
     ELSE IF HasHigherRank(store[author[h]], bestMatch[h].rank)
     THEN /\ pc' = [pc EXCEPT ![h] = "assign_role"]
          /\ outcome' = [outcome EXCEPT ![h] = "RejectNoUpgrade"]
          /\ UNCHANGED failure
     ELSE /\ pc' = [pc EXCEPT ![h] = "assign_role"]
          /\ outcome' = [outcome EXCEPT ![h] = "Accept"]
          /\ UNCHANGED failure
  /\ UNCHANGED <<author, pending, results, bestMatch, grants, upserts, notice,
                 msgLive, store, role, counts>>

\* await databaseService.getVerification(author) and the check on what it
\* returned, up to the next await (message.delete or assignRankRole).
GetVerification(h, found) ==
  /\ pc[h] = "get_verification"
  /\ IF ~found
     THEN /\ pc' = [pc EXCEPT ![h] = "error_dm"]
          /\ failure' = [failure EXCEPT ![h] = "store_read"]
          /\ UNCHANGED outcome
     ELSE IF HasHigherRank(store[author[h]], bestMatch[h].rank)
     THEN /\ pc' = [pc EXCEPT ![h] = "noupgrade_delete"]
          /\ outcome' = [outcome EXCEPT ![h] = "RejectNoUpgrade"]
          /\ UNCHANGED failure
     ELSE /\ pc' = [pc EXCEPT ![h] = "assign_role"]
          /\ outcome' = [outcome EXCEPT ![h] = "Accept"]
          /\ UNCHANGED failure
  /\ UNCHANGED <<author, pending, results, bestMatch, grants, upserts, notice,
                 msgLive, store, role, counts>>

\* roleManager.assignRankRole: the member's rank role becomes this one.
assignRankRole(roles, u, rank) == [roles EXCEPT ![u] = rank.role_id]

\* AssignRole with the throw swallowed: the handler goes on to the upsert.
AssignRoleSwallowed(h, assigned) ==
  /\ pc[h] = "assign_role"
  /\ IF assigned
     THEN /\ role' = assignRankRole(role, author[h], bestMatch[h].rank)
          /\ grants' = [grants EXCEPT ![h] = @ + 1]
          /\ pc' = [pc EXCEPT ![h] = "upsert"]
          /\ UNCHANGED failure
     ELSE /\ pc' = [pc EXCEPT ![h] = "upsert"]
          /\ failure' = [failure EXCEPT ![h] = "role_grant"]
          /\ UNCHANGED <<role, grants>>
  /\ UNCHANGED <<author, pending, results, bestMatch, outcome, upserts, notice,
                 msgLive, store, counts>>

\* await roleManager.assignRankRole(member, ...); a throw goes to the catch.
AssignRole(h, assigned) ==
  /\ pc[h] = "assign_role"
  /\ IF assigned
     THEN /\ role' = assignRankRole(role, author[h], bestMatch[h].rank)
          /\ grants' = [grants EXCEPT ![h] = @ + 1]
          /\ pc' = [pc EXCEPT ![h] = "upsert"]
          /\ UNCHANGED failure
     ELSE /\ pc' = [pc EXCEPT ![h] = "error_dm"]
          /\ failure' = [failure EXCEPT ![h] = "role_grant"]
          /\ UNCHANGED <<role, grants>>
  /\ UNCHANGED <<author, pending, results, bestMatch, outcome, upserts, notice,
                 msgLive, store, counts>>

\* LevelDetected with && for ||.
LevelDetectedAnd(best) == IF Truthy(best.level) THEN best.rank.level_min ELSE best.level

\* const levelDetected = bestMatch.level || matchedRank.level_min
LevelDetected(best) == IF Truthy(best.level) THEN best.level ELSE best.rank.level_min

\* The VerificationData the handler passes to upsertVerification.
ProposedRecord(best) ==
  [rank_name |-> best.rank.rank_name,
   level_detected |-> LevelDetected(best),
   role_id_assigned |-> best.rank.role_id]

\* DatabaseService.upsertVerification: create or update the row of discord_id.
upsertVerification(rows, discord_id, data) == [rows EXCEPT ![discord_id] = data]

\* await databaseService.upsertVerification(...); a throw goes to the catch.
UpsertVerification(h, written) ==
  /\ pc[h] = "upsert"
  /\ IF written
     THEN /\ store' = upsertVerification(store, author[h], ProposedRecord(bestMatch[h]))
          /\ upserts' = [upserts EXCEPT ![h] = @ + 1]
          /\ pc' = [pc EXCEPT ![h] = "verified_dm"]
          /\ UNCHANGED failure
     ELSE /\ pc' = [pc EXCEPT ![h] = "error_dm"]
          /\ failure' = [failure EXCEPT ![h] = "store_write"]
          /\ UNCHANGED <<store, upserts>>
  /\ UNCHANGED <<author, pending, results, bestMatch, outcome, grants, notice,
                 msgLive, role, counts>>

\* SendVerificationDM with sendVerificationDM's try/catch lost: a delivery
\* failure reaches the handler's catch.
SendVerificationDMThrows(h, delivered) ==
  /\ pc[h] = "verified_dm"
  /\ notice' = [notice EXCEPT ![h] = IF delivered THEN "verified" ELSE "none"]
  /\ pc' = [pc EXCEPT ![h] = IF delivered THEN "accept_delete" ELSE "error_dm"]
  /\ failure' = [failure EXCEPT ![h] = IF delivered THEN @ ELSE "notify"]
  /\ sends' = [sends EXCEPT ![h] = @ + 1]
  /\ registered' = [registered EXCEPT ![h] = IF delivered THEN @ + 1 ELSE @]
  /\ UNCHANGED <<author, pending, results, bestMatch, outcome, grants,
                 upserts, msgLive, store, role, atts, failed, deletes>>

\* await sendVerificationDM(...); a delivery failure (no client, no user, the
\* send throws) is swallowed and scheduleDeletion is not reached.
SendVerificationDM(h, delivered) ==
  /\ pc[h] = "verified_dm"
  /\ notice' = [notice EXCEPT ![h] = IF delivered THEN "verified" ELSE "none"]
  /\ pc' = [pc EXCEPT ![h] = "accept_delete"]
  /\ sends' = [sends EXCEPT ![h] = @ + 1]
  /\ registered' = [registered EXCEPT ![h] = IF delivered THEN @ + 1 ELSE @]
  /\ UNCHANGED <<author, pending, results, bestMatch, outcome, failure, grants,
                 upserts, msgLive, store, role, atts, failed, deletes>>

\* The handler's catch block: the error DM; the source message is left alone.
CatchError(h, delivered) ==
  /\ pc[h] = "error_dm"
  /\ notice' = [notice EXCEPT ![h] = IF delivered THEN "error" ELSE "none"]
  /\ pc' = [pc EXCEPT ![h] = "done"]
  /\ bestMatch' = [bestMatch EXCEPT ![h] = NullResult]
  /\ sends' = [sends EXCEPT ![h] = @ + 1]
  /\ registered' = [registered EXCEPT ![h] = IF delivered THEN @ + 1 ELSE @]
  /\ UNCHANGED <<author, pending, results, outcome, failure, grants,
                 upserts, msgLive, store, role, atts, failed, deletes>>

\* The author (or a moderator) deletes the source message while its handler
\* runs; no cancellation reaches the handler.
UserDeletesMessage(h) ==
  /\ InFlight(h)
  /\ msgLive[h]
  /\ msgLive' = [msgLive EXCEPT ![h] = FALSE]
  /\ UNCHANGED <<pc, author, pending, results, bestMatch, outcome, failure,
                 grants, upserts, notice, store, role, counts>>

\* What can happen to one attachment inside processImage: the download
\* throws, the OCR throws, the text is not a profile screen, or matchRank
\* returns m (a match or null).  What a run never computes is left at null.
ImageRuns(matches) ==
  { [downloaded |-> FALSE, extracted |-> FALSE, isProfile |-> FALSE, matchedRank |-> NullRank],
    [downloaded |-> TRUE,  extracted |-> FALSE, isProfile |-> FALSE, matchedRank |-> NullRank],
    [downloaded |-> TRUE,  extracted |-> TRUE,  isProfile |-> FALSE, matchedRank |-> NullRank] }
  \cup
  { [downloaded |-> TRUE, extracted |-> TRUE, isProfile |-> TRUE, matchedRank |-> m] :
      m \in matches \cup {NullRank} }

\* The steps a handler takes once its message is delivered; matchRank's
\* results are drawn from matches.
Step(h, matches) ==
  \/ \E run \in ImageRuns(matches) :
       ProcessImage(h, run.downloaded, run.extracted, run.isProfile, run.matchedRank)
  \/ Reconcile(h)
  \/ \E delivered \in BOOLEAN : SendRejectDM(h, delivered)
  \/ \E fetched \in {"member", "undefined", "throws"} : FetchMember(h, fetched)
  \/ \E found \in BOOLEAN : GetVerification(h, found)
  \/ \E assigned \in BOOLEAN : AssignRole(h, assigned)
  \/ \E written \in BOOLEAN : UpsertVerification(h, written)
  \/ \E delivered \in BOOLEAN : SendVerificationDM(h, delivered)
  \/ \E deleted \in BOOLEAN : DeleteMessage(h, deleted)
  \/ \E delivered \in BOOLEAN : CatchError(h, delivered)

\* Messages of up to MaxAtt images, each delivered once the handler of the
\* one before has returned; the source message may be deleted under a
\* running handler.
Next ==
  \/ \E u \in Users, n \in 1..MaxAtt :
       /\ \A h \in Handlers : ~InFlight(h)
       /\ Deliver(1, u, n)
       /\ UNCHANGED <<sched, classifier, channel, interaction, others>>
  \/ \E h \in Handlers : Step(h, MatchedRanks) /\ UNCHANGED <<sched, classifier, channel, interaction, others>>
  \/ \E h \in Handlers : UserDeletesMessage(h) /\ UNCHANGED <<sched, classifier, channel, interaction, others>>

Spec == Init /\ [][Next]_vars

\* Messages of one user, of one image each, delivered as they arrive:
\* client.on dispatches a handler per event and awaits none of them, so
\* handlers interleave.  With one image per message the confidence decides
\* nothing: one value is drawn.
NextConcurrent ==
  \/ \E h \in Handlers : Deliver(h, "u1", 1) /\ UNCHANGED <<sched, classifier, channel, interaction, others>>
  \/ \E h \in Handlers :
       Step(h, {m \in MatchedRanks : m.confidence = 90}) /\ UNCHANGED <<sched, classifier, channel, interaction, others>>

SpecConcurrent == Init /\ [][NextConcurrent]_vars

(***************************************************************************)
(* DMCleanupService (src/unnamed/part_001): the Map scheduledDeletions and *)
(* the timers of setTimeout.  A timer is pending until it fires or is      *)
(* cleared; its callback is async: it calls message.delete(), and removes  *)
(* the Map entry of the message id when that call has settled.  All        *)
(* messages here are direct messages (message.channel.isDMBased()).        *)
(***************************************************************************)

\* clearTimeout(t): a pending timer never fires; on any other timer, and on
\* undefined, it does nothing.
clearTimeout(ts, t) ==
  IF t \in Timers /\ ts[t].state = "pending"
  THEN [ts EXCEPT ![t].state = "cleared"]
  ELSE ts

\* cancelDeletion(messageId), for the id of a message that was sent: clear
\* the timer of the entry and delete the entry, if there is one.
CancelDeletion(m) ==
  /\ dm[m] # "unsent"
  /\ timer' = clearTimeout(timer, scheduledDeletions[m])
  /\ scheduledDeletions' = [scheduledDeletions EXCEPT ![m] = 0]
  /\ cancelled' = [cancelled EXCEPT ![m] = TRUE]
  /\ UNCHANGED <<dm, drained>>

\* The timer setTimeout returns: an id not handed out before.
NewTimer == CHOOSE t \in Timers :
              /\ timer[t].state = "unused"
              /\ \A u \in Timers : timer[u].state = "unused" => t <= u

\* scheduleDeletion(message): cancelDeletion(messageId), setTimeout, then
\* scheduledDeletions.set(messageId, ...).
scheduleDeletion(m) ==
  /\ \E t \in Timers : timer[t].state = "unused"
  /\ timer' = [clearTimeout(timer, scheduledDeletions[m]) EXCEPT
                 ![NewTimer] = [message |-> m, state |-> "pending", attempts |-> 0]]
  /\ scheduledDeletions' = [scheduledDeletions EXCEPT ![m] = NewTimer]
  /\ cancelled' = [cancelled EXCEPT ![m] = FALSE]

\* scheduleDeletion called on a message that was sent before.
ScheduleDeletion(m) ==
  /\ dm[m] # "unsent"
  /\ scheduleDeletion(m)
  /\ UNCHANGED <<dm, drained>>

\* SendEphemeral with the scheduleDeletion(sentMessage) call lost.
SendEphemeralUnscheduled(m) ==
  /\ dm[m] = "unsent"
  /\ \A n \in Msgs : dm[n] = "unsent" => m <= n
  /\ dm' = [dm EXCEPT ![m] = "live"]
  /\ UNCHANGED <<scheduledDeletions, timer, drained, cancelled>>

\* sendVerificationDM / sendErrorDM when the send is delivered: user.send
\* resolves with a new message (the next id) and scheduleDeletion(sentMessage)
\* follows in the same turn.
SendEphemeral(m) ==
  /\ dm[m] = "unsent"
  /\ \A n \in Msgs : dm[n] = "unsent" => m <= n
  /\ dm' = [dm EXCEPT ![m] = "live"]
  /\ scheduleDeletion(m)
  /\ UNCHANGED drained

\* The timeout elapses: the callback starts and calls message.delete().
TimerFires(t) ==
  /\ timer[t].state = "pending"
  /\ timer' = [timer EXCEPT ![t].state = "running", ![t].attempts = @ + 1]
  /\ UNCHANGED <<dm, scheduledDeletions, drained, cancelled>>

\* DeleteSettles with the catch branch re-arming the timer (a retry).
DeleteSettlesRetries(t, result) ==
  /\ timer[t].state = "running"
  /\ result \in {"deleted", "unknown_message", "failed"}
  /\ result = "deleted" => dm[timer[t].message] = "live"
  /\ result = "unknown_message" => dm[timer[t].message] = "deleted"
  /\ dm' = [dm EXCEPT ![timer[t].message] = IF result = "deleted" THEN "deleted" ELSE @]
  /\ timer' = [timer EXCEPT ![t].state = IF result = "deleted" THEN "done" ELSE "pending"]
  /\ scheduledDeletions' =
       IF result = "deleted"
       THEN [scheduledDeletions EXCEPT ![timer[t].message] = 0]
       ELSE scheduledDeletions
  /\ UNCHANGED <<drained, cancelled>>

\* DeleteSettles with scheduledDeletions.delete missing from the catch branch.
DeleteSettlesKeepsFailed(t, result) ==
  /\ timer[t].state = "running"
  /\ result \in {"deleted", "unknown_message", "failed"}
  /\ result = "deleted" => dm[timer[t].message] = "live"
  /\ result = "unknown_message" => dm[timer[t].message] = "deleted"
  /\ dm' = [dm EXCEPT ![timer[t].message] = IF result = "deleted" THEN "deleted" ELSE @]
  /\ timer' = [timer EXCEPT ![t].state = "done"]
  /\ scheduledDeletions' =
       IF result = "deleted"
       THEN [scheduledDeletions EXCEPT ![timer[t].message] = 0]
       ELSE scheduledDeletions
  /\ UNCHANGED <<drained, cancelled>>

\* The callback's await message.delete() settles: the message is deleted, or
\* the call throws because the message is gone (Unknown Message) or for
\* another reason; both branches end with scheduledDeletions.delete(messageId).
DeleteSettles(t, result) ==
  /\ timer[t].state = "running"
  /\ result \in {"deleted", "unknown_message", "failed"}
  /\ result = "deleted" => dm[timer[t].message] = "live"
  /\ result = "unknown_message" => dm[timer[t].message] = "deleted"
  /\ dm' = [dm EXCEPT ![timer[t].message] = IF result = "deleted" THEN "deleted" ELSE @]
  /\ timer' = [timer EXCEPT ![t].state = "done"]
  /\ scheduledDeletions' = [scheduledDeletions EXCEPT ![timer[t].message] = 0]
  /\ UNCHANGED <<drained, cancelled>>

\* DeleteAllBotDMs with the sweep cancelling the scheduled deletion of what
\* it deletes.
DeleteAllBotDMsCancels(m) ==
  /\ dm[m] = "live"
  /\ dm' = [dm EXCEPT ![m] = "deleted"]
  /\ timer' = clearTimeout(timer, scheduledDeletions[m])
  /\ scheduledDeletions' = [scheduledDeletions EXCEPT ![m] = 0]
  /\ UNCHANGED <<drained, cancelled>>

\* deleteAllBotDMs, run from the ready handler: one message.delete() of its
\* sweep over the bot's direct messages; the registry is not consulted.
DeleteAllBotDMs(m) ==
  /\ dm[m] = "live"
  /\ dm' = [dm EXCEPT ![m] = "deleted"]
  /\ UNCHANGED <<scheduledDeletions, timer, drained, cancelled>>

\* Cleanup with the clearTimeout loop lost: only the Map is cleared.
CleanupMapOnly ==
  /\ ~drained
  /\ drained' = TRUE
  /\ scheduledDeletions' = [m \in Msgs |-> 0]
  /\ UNCHANGED <<dm, timer, cancelled>>

\* cleanup(), called by shutdown(): clearTimeout of every entry's timer, then
\* scheduledDeletions.clear().
Cleanup ==
  /\ ~drained
  /\ drained' = TRUE
  /\ timer' = [t \in Timers |->
                 IF \E m \in Msgs : scheduledDeletions[m] = t
                 THEN clearTimeout(timer, t)[t]
                 ELSE timer[t]]
  /\ scheduledDeletions' = [m \in Msgs |-> 0]
  /\ UNCHANGED <<dm, cancelled>>

\* The scheduler as the bot drives it: every direct message it sends is
\* scheduled once; timers fire, callbacks settle, the startup sweep deletes,
\* shutdown drains.
NextNotifications ==
  \/ \E m \in Msgs : SendEphemeral(m) /\ UNCHANGED <<pipeline, classifier, channel, interaction, others>>
  \/ \E t \in Timers : TimerFires(t) /\ UNCHANGED <<pipeline, classifier, channel, interaction, others>>
  \/ \E t \in Timers, result \in {"deleted", "unknown_message", "failed"} :
       DeleteSettles(t, result) /\ UNCHANGED <<pipeline, classifier, channel, interaction, others>>
  \/ \E m \in Msgs : DeleteAllBotDMs(m) /\ UNCHANGED <<pipeline, classifier, channel, interaction, others>>
  \/ Cleanup /\ UNCHANGED <<pipeline, classifier, channel, interaction, others>>

SpecNotifications == Init /\ [][NextNotifications]_vars

\* The same, with the runtime's guarantee that the callback of a timer that
\* is armed and not cleared is run.
SpecNotificationsFair ==
  /\ Init /\ [][NextNotifications]_vars
  /\ \A t \in Timers : WF_vars(TimerFires(t) /\ UNCHANGED <<pipeline, classifier, channel, interaction, others>>)

\* The scheduler under every sequence of calls of its public methods:
\* scheduleDeletion of a message already sent and cancelDeletion come in.
NextScheduler ==
  \/ NextNotifications
  \/ \E m \in Msgs : ScheduleDeletion(m) /\ UNCHANGED <<pipeline, classifier, channel, interaction, others>>
  \/ \E m \in Msgs : CancelDeletion(m) /\ UNCHANGED <<pipeline, classifier, channel, interaction, others>>

SpecScheduler == Init /\ [][NextScheduler]_vars

(***************************************************************************)
(* The claims.                                                             *)
(***************************************************************************)

\* The handler has just decided: results is still the array it decided on.
JustDecided(h) == pc[h] \in {"invalid_dm", "unreadable_dm", "fetch_member"}

FourOutcomes == {"Accept", "RejectInvalid", "RejectUnreadable", "RejectNoUpgrade"}

\* The level_min of the tier named name; Undefined when no tier has the name.
LevelMinOf(name) ==
  IF \E i \in DOMAIN RankTable : RankTable[i].rank_name = name
  THEN (CHOOSE t \in {RankTable[i] : i \in DOMAIN RankTable} : t.rank_name = name).level_min
  ELSE Undefined

\* C1: batch poisoning.  Once the handler has decided on a results array that
\* holds at least one not-a-profile entry, the outcome is RejectInvalid
\* whatever else the array holds, and a submission whose outcome is
\* RejectInvalid has no role grant and no upsert, then or later.
C1_BatchPoisoning ==
  \A h \in Handlers :
    /\ (JustDecided(h) /\ \E i \in DOMAIN results[h] : results[h][i].isProfile = "false")
         => (outcome[h] = "RejectInvalid" /\ pc[h] = "invalid_dm")
    /\ outcome[h] = "RejectInvalid"
         => (grants[h] = 0 /\ upserts[h] = 0 /\ pc[h] \in {"invalid_dm", "reject_delete", "done"})

\* C1 happens: a rejected batch of a not-a-profile image and a match of the
\* highest confidence.
C1_Witness ==
  \E h \in Handlers :
    /\ pc[h] = "invalid_dm" /\ outcome[h] = "RejectInvalid"
    /\ \E i, j \in DOMAIN results[h] :
         /\ results[h][i].isProfile = "false"
         /\ results[h][j].success /\ results[h][j].confidence = 90

\* C2: the no-downgrade decision.  When the handler has read the prior record:
\* if the prior rank's level_min is above the best match's, the outcome is
\* RejectNoUpgrade and the handler goes to delete the message; if the best
\* match's level_min is above the prior rank's, the outcome is Accept.  A
\* submission rejected as no-upgrade never has a role grant or an upsert.
C2_NoDowngradeDecision ==
  /\ [][\A h \in Handlers :
          (pc[h] = "get_verification" /\ pc'[h] \notin {"get_verification", "error_dm"}
             /\ store[author[h]] # NullRecord
             /\ LevelMinOf(store[author[h]].rank_name) # Undefined)
          => /\ LevelMinOf(store[author[h]].rank_name) > bestMatch[h].rank.level_min
                  => (outcome'[h] = "RejectNoUpgrade" /\ pc'[h] = "noupgrade_delete")
             /\ bestMatch[h].rank.level_min > LevelMinOf(store[author[h]].rank_name)
                  => (outcome'[h] = "Accept" /\ pc'[h] = "assign_role")]_vars
  /\ [](\A h \in Handlers :
          outcome[h] = "RejectNoUpgrade"
            => (grants[h] = 0 /\ upserts[h] = 0 /\ pc[h] \in {"noupgrade_delete", "done"}))

\* C2 happens: a Silver match rejected against a stored Gold record.
C2_Witness ==
  \E h \in Handlers :
    /\ pc[h] = "noupgrade_delete" /\ outcome[h] = "RejectNoUpgrade"
    /\ store[author[h]].rank_name = "Gold"
    /\ bestMatch[h].rank.rank_name = "Silver"
    /\ grants[h] = 0 /\ upserts[h] = 0

\* C3: for every user, the level_detected of the stored record never decreases
\* from one upsert to the next.
C3_LevelNeverDecreases ==
  [][\A u \in Users :
       store[u] # NullRecord => store'[u].level_detected >= store[u].level_detected]_vars

\* C4: never downgrade automatically, under every interleaving: an upsert
\* never replaces a stored rank by a rank of strictly lower level_min.
C4_NeverDowngrade ==
  [][\A u \in Users :
       store[u] # NullRecord
         => LevelMinOf(store'[u].rank_name) >= LevelMinOf(store[u].rank_name)]_vars

\* C5: per-user serialization: two submissions of one user are never in
\* flight at the same time.
C5_PerUserSerialization ==
  \A h1, h2 \in Handlers :
    (h1 # h2 /\ InFlight(h1) /\ InFlight(h2)) => author[h1] # author[h2]

\* The first position of rs that holds its highest confidence.
FirstOfHighest(rs) ==
  CHOOSE i \in DOMAIN rs :
    /\ \A j \in DOMAIN rs : rs[j].confidence <= rs[i].confidence
    /\ \A j \in DOMAIN rs : rs[j].confidence = rs[i].confidence => i <= j

\* C6: best-of-N selection.  When the handler has selected bestMatch among
\* the successful results, bestMatch is the entry of highest confidence, and
\* of several entries of the highest confidence the earliest one.
C6_BestOfN ==
  \A h \in Handlers :
    pc[h] = "fetch_member" => bestMatch[h] = results[h][FirstOfHighest(results[h])]

\* C6 happens: two matches of equal confidence and different ranks; the first
\* was selected.
C6_Witness ==
  \E h \in Handlers :
    /\ pc[h] = "fetch_member" /\ Len(results[h]) = 2
    /\ results[h][1].confidence = results[h][2].confidence
    /\ results[h][1].rank.rank_name # results[h][2].rank.rank_name
    /\ bestMatch[h] = results[h][1]

\* C7: a results array that is empty, or holds no rank match (and no
\* not-a-profile entry), is decided RejectUnreadable, and a submission whose
\* outcome is RejectUnreadable has no role grant and no upsert, whatever the
\* stored record.
C7_NoMatchUnreadable ==
  /\ [][\A h \in Handlers :
          (pc[h] = "reconcile" /\ pc'[h] # "reconcile"
             /\ \A i \in DOMAIN results[h] :
                  results[h][i].isProfile # "false" /\ ~results[h][i].success)
          => (outcome'[h] = "RejectUnreadable" /\ pc'[h] = "unreadable_dm")]_vars
  /\ [](\A h \in Handlers :
          outcome[h] = "RejectUnreadable"
            => /\ grants[h] = 0 /\ upserts[h] = 0
               /\ pc[h] \in {"unreadable_dm", "reject_delete", "done"})

\* C7 happens: no result at all, decided unreadable against a stored record.
C7_Witness ==
  \E h \in Handlers :
    /\ pc[h] = "unreadable_dm" /\ outcome[h] = "RejectUnreadable"
    /\ results[h] = << >>
    /\ store[author[h]] # NullRecord

\* C8, as claimed: the record upserted on Accept has the rank_name and the
\* role_id of the best match's rank and the best match's level_detected, for
\* every best match.
C8_RecordIsBestMatch ==
  \A h \in Handlers :
    pc[h] = "verified_dm"
      => /\ store[author[h]].rank_name = bestMatch[h].rank.rank_name
         /\ store[author[h]].role_id_assigned = bestMatch[h].rank.role_id
         /\ store[author[h]].level_detected = bestMatch[h].rank.level_detected

\* C8, amended: the record upserted on Accept has the rank_name and the
\* role_id of the best match's rank; its level_detected is the best match's
\* level_detected when that is a number other than 0, and the rank's
\* level_min when the best match has no level (or level 0).
C8_RecordIsBestMatchOrLevelMin ==
  \A h \in Handlers :
    pc[h] = "verified_dm"
      => /\ outcome[h] = "Accept"
         /\ store[author[h]].rank_name = bestMatch[h].rank.rank_name
         /\ store[author[h]].role_id_assigned = bestMatch[h].rank.role_id
         /\ store[author[h]].level_detected =
              IF bestMatch[h].rank.level_detected \in {Undefined, 0}
              THEN bestMatch[h].rank.level_min
              ELSE bestMatch[h].rank.level_detected

\* C8 happens: a best match without a level was accepted and upserted.
C8_Witness ==
  \E h \in Handlers :
    /\ pc[h] = "verified_dm" /\ outcome[h] = "Accept"
    /\ bestMatch[h].rank.level_detected = Undefined
    /\ store[author[h]].level_detected = bestMatch[h].rank.level_min

\* C9, as claimed: a submission that ended with outcome Accept has exactly
\* one role grant and exactly one upsert; one of any other outcome has none.
C9_ExactlyOnce ==
  \A h \in Handlers :
    /\ (pc[h] = "done" /\ outcome[h] = "Accept") => (grants[h] = 1 /\ upserts[h] = 1)
    /\ outcome[h] # "Accept" => (grants[h] = 0 /\ upserts[h] = 0)

\* C9, amended: a submission of outcome Accept has its role grant and its
\* upsert applied at most once each, the upsert only after the grant, and
\* both exactly once when the handler ended without a collaborator failure;
\* a failed role grant leaves both unapplied, a failed upsert leaves the
\* grant applied alone.  A submission of any other outcome has neither.
\* Deleting the source message under the handler changes none of this.
C9_AtMostOnceExactlyOnceUnlessFailed ==
  \A h \in Handlers :
    /\ grants[h] <= 1 /\ upserts[h] <= grants[h]
    /\ outcome[h] # "Accept" => (grants[h] = 0 /\ upserts[h] = 0)
    /\ (pc[h] = "done" /\ outcome[h] = "Accept" /\ failure[h] = "none")
         => (grants[h] = 1 /\ upserts[h] = 1)
    /\ (outcome[h] = "Accept" /\ failure[h] = "role_grant")
         => (grants[h] = 0 /\ upserts[h] = 0)
    /\ (outcome[h] = "Accept" /\ failure[h] = "store_write")
         => (grants[h] = 1 /\ upserts[h] = 0)

\* C9 happens: the source message was deleted under the handler, which has
\* applied its one grant and its one upsert and has yet to try its own delete.
C9_Witness ==
  \E h \in Handlers :
    /\ pc[h] = "accept_delete" /\ outcome[h] = "Accept"
    /\ ~msgLive[h]
    /\ grants[h] = 1 /\ upserts[h] = 1

\* C10, as claimed: every handler that has returned has one of the four
\* outcomes.
C10_FourOutcomes ==
  \A h \in Handlers : pc[h] = "done" => outcome[h] \in FourOutcomes

\* C10, amended: a handler that has returned has one of the four outcomes,
\* or no outcome because the member fetch or the store read failed before
\* the decision (then nothing was granted or upserted); a handler past its
\* decision has an outcome, and one before it has none.
C10_FourOutcomesOrFailedBefore ==
  \A h \in Handlers :
    /\ pc[h] = "done"
         => \/ outcome[h] \in FourOutcomes /\ failure[h] \in {"none", "role_grant", "store_write"}
            \/ /\ outcome[h] = "None"
               /\ failure[h] \in {"no_member", "member_fetch", "store_read"}
               /\ grants[h] = 0 /\ upserts[h] = 0
    /\ pc[h] \in {"invalid_dm", "unreadable_dm", "reject_delete", "noupgrade_delete",
                  "assign_role", "upsert", "verified_dm", "accept_delete"}
         => outcome[h] \in FourOutcomes
    /\ pc[h] \in {"process", "reconcile", "fetch_member", "get_verification"}
         => outcome[h] = "None"

\* C10 happens: a handler returned without an outcome after a failed store read.
C10_Witness ==
  \E h \in Handlers :
    pc[h] = "done" /\ outcome[h] = "None" /\ failure[h] = "store_read"

Rejections == {"RejectInvalid", "RejectUnreadable", "RejectNoUpgrade"}

\* C11: each of the three rejections is reported to the submitting user: a
\* handler that has returned with one of them has sent a notification.
C11_RejectionsReported ==
  \A h \in Handlers :
    (pc[h] = "done" /\ outcome[h] \in Rejections) => sends[h] >= 1

\* C12: an attachment whose download or OCR fails adds nothing to results and
\* the loop goes on to the next attachment; the decision is taken on what the
\* other attachments gave: a match among them (and no not-a-profile image)
\* goes on to the best match, and when every attachment failed the submission
\* is rejected as unreadable and never accepted.
C12_FailedAttachmentSkipped ==
  /\ [][\A h \in Handlers :
          failed'[h] > failed[h]
            => /\ results'[h] = results[h]
               /\ pending'[h] = pending[h] - 1
               /\ pc'[h] = IF pending[h] > 1 THEN "process" ELSE "reconcile"
               /\ outcome'[h] = "None"]_vars
  /\ [](\A h \in Handlers :
          /\ JustDecided(h)
               => /\ Len(results[h]) <= atts[h] - failed[h]
                  /\ failed[h] = atts[h] => outcome[h] = "RejectUnreadable"
                  /\ ((\E i \in DOMAIN results[h] : results[h][i].success)
                        /\ (\A i \in DOMAIN results[h] : results[h][i].isProfile # "false"))
                       => pc[h] = "fetch_member"
          /\ outcome[h] = "Accept" => failed[h] < atts[h])

\* C12 happens: of two attachments one failed, and the submission was
\* accepted on the other.
C12_Witness ==
  \E h \in Handlers :
    /\ pc[h] = "assign_role" /\ outcome[h] = "Accept"
    /\ atts[h] = 2 /\ failed[h] = 1

\* C13: a notification that cannot be delivered is not fatal: the accepted
\* submission keeps its role grant and its upsert, the handler goes on to
\* delete the source message, no failure is recorded and scheduleDeletion is
\* not called; a handler that returned from an accepted submission without a
\* failure has tried the deletion once.
C13_DeliveryFailureNonFatal ==
  /\ [][\A h \in Handlers :
          (pc[h] = "verified_dm" /\ pc'[h] # "verified_dm" /\ notice'[h] = "none")
            => /\ pc'[h] = "accept_delete"
               /\ outcome'[h] = "Accept" /\ failure'[h] = "none"
               /\ grants'[h] = 1 /\ upserts'[h] = 1
               /\ registered'[h] = registered[h]]_vars
  /\ [](\A h \in Handlers :
          /\ notice[h] = "none" => registered[h] = 0
          /\ (pc[h] = "done" /\ outcome[h] = "Accept" /\ failure[h] = "none")
               => (grants[h] = 1 /\ upserts[h] = 1 /\ deletes[h] = 1))

\* C13 happens: the confirmation of an accepted submission was not delivered;
\* the handler returned after trying the deletion.
C13_Witness ==
  \E h \in Handlers :
    /\ pc[h] = "done" /\ outcome[h] = "Accept" /\ failure[h] = "none"
    /\ sends[h] = 1 /\ notice[h] = "none" /\ registered[h] = 0
    /\ grants[h] = 1 /\ upserts[h] = 1 /\ deletes[h] = 1

C15_Barrier ==
  \A h \in Handlers :
    /\ pending[h] > 0
         => /\ pc[h] = "process" /\ outcome[h] = "None" /\ bestMatch[h] = NullResult
            /\ grants[h] = 0 /\ upserts[h] = 0 /\ sends[h] = 0 /\ deletes[h] = 0
    /\ (JustDecided(h) \/ outcome[h] # "None") => pending[h] = 0

\* C15 happens: the first of two attachments was not a profile screen, and
\* the handler is still in the loop with the second to process.
C15_Witness ==
  \E h \in Handlers :
    /\ pc[h] = "process" /\ pending[h] = 1 /\ atts[h] = 2
    /\ Len(results[h]) = 1 /\ results[h][1].isProfile = "false"

\* The timers whose callback deletes message m and that are yet to fire.
PendingTimers(m) == { t \in Timers : timer[t].message = m /\ timer[t].state = "pending" }

\* C16: cancellation.  Once cancelDeletion(m) has been called, and until m is
\* scheduled again, the registry has no entry for m and no timer of m is left
\* to fire: no deletion attempt on m starts.
C16_CancelPreventsDeletion ==
  /\ [](\A m \in Msgs :
          cancelled[m] => (scheduledDeletions[m] = 0 /\ PendingTimers(m) = {}))
  /\ [][\A t \in Timers :
          (timer[t].message # 0 /\ cancelled[timer[t].message]
             /\ cancelled'[timer[t].message])
            => timer'[t].attempts = timer[t].attempts]_vars

\* C17: each message handle has at most one timer yet to fire, whatever
\* calls were made; so scheduling a handle again leaves the new timer alone.
C17_OneLiveTimerPerHandle ==
  \A m \in Msgs : Cardinality(PendingTimers(m)) <= 1

\* C18, as claimed: every notification message that was sent and still
\* exists has an entry in the registry.
C18_EntryPerLiveMessage ==
  \A m \in Msgs : dm[m] = "live" => scheduledDeletions[m] # 0

\* C18, amended: a notification message that was sent and still exists has
\* its one entry in the registry as long as its timer is yet to fire, and
\* while its deletion attempt is under way unless cleanup() has run; an entry
\* is always that of the message's own timer, yet to fire or under way.  Once
\* the attempt has settled (also when it failed) or cleanup() has discarded
\* the timer, the message has no entry.
C18_EntryWhileTimerLive ==
  \A m \in Msgs :
    dm[m] = "live"
      => /\ PendingTimers(m) # {} => scheduledDeletions[m] \in PendingTimers(m)
         /\ (~drained /\ \E t \in Timers : timer[t].message = m /\ timer[t].state = "running")
              => scheduledDeletions[m] # 0
         /\ scheduledDeletions[m] # 0
              => /\ timer[scheduledDeletions[m]].message = m
                 /\ timer[scheduledDeletions[m]].state \in {"pending", "running"}
         /\ (\A t \in Timers : timer[t].message = m => timer[t].state \in {"done", "cleared"})
              => scheduledDeletions[m] = 0

\* C18 happens: one message exists with its entry and its timer yet to fire,
\* another exists without entry after its deletion attempt failed.
C18_Witness ==
  \E m1, m2 \in Msgs :
    /\ dm[m1] = "live" /\ scheduledDeletions[m1] # 0
    /\ timer[scheduledDeletions[m1]].state = "pending"
    /\ dm[m2] = "live" /\ scheduledDeletions[m2] = 0
    /\ \E t \in Timers : timer[t].message = m2 /\ timer[t].state = "done"

\* C19: a timer that fires makes one deletion attempt; when the attempt
\* settles, deleted or failed for whatever reason, the entry of the handle
\* is gone and the timer is finished for good: nothing else is touched, and
\* no timer ever makes a second attempt.
C19_FireOnceRemoveAlways ==
  /\ [][\A t \in Timers :
          /\ (timer[t].state = "pending" /\ timer'[t].state = "running")
               => timer'[t].attempts = 1
          /\ (timer[t].state = "running" /\ timer'[t] # timer[t])
               => /\ timer'[t].state = "done"
                  /\ scheduledDeletions'[timer[t].message] = 0
                  /\ \A u \in Timers \ {t} : timer'[u] = timer[u]
                  /\ drained' = drained
          /\ timer[t].state = "done" => timer'[t] = timer[t]]_vars
  /\ [](\A t \in Timers :
          /\ timer[t].attempts <= 1
          /\ timer[t].state \in {"running", "done"} <=> timer[t].attempts = 1)

\* C19 happens: a timer fired, its one attempt failed with the message still
\* there, and the entry is gone.
C19_Witness ==
  \E t \in Timers :
    /\ timer[t].state = "done" /\ timer[t].attempts = 1
    /\ dm[timer[t].message] = "live"
    /\ scheduledDeletions[timer[t].message] = 0

C21_EveryDMScheduledAndDeleted ==
  /\ [][\A m \in Msgs :
          (dm[m] = "unsent" /\ dm'[m] # "unsent")
            => /\ scheduledDeletions'[m] # 0
               /\ timer'[scheduledDeletions'[m]] =
                    [message |-> m, state |-> "pending", attempts |-> 0]]_vars
  /\ \A t \in Timers :
       (timer[t].state = "pending")
         ~> (timer[t].attempts = 1 \/ timer[t].state = "cleared" \/ drained)

\* C21 happens: a message was sent and its timer has made its attempt.
C21_Witness ==
  \E m \in Msgs, t \in Timers :
    /\ dm[m] = "deleted" /\ ~drained
    /\ timer[t].message = m /\ timer[t].state = "done" /\ timer[t].attempts = 1

\* C22: the sweep of deleteAllBotDMs leaves the registry and the timers as
\* they are: a message it deletes keeps its entry and its armed timer; when
\* that timer's attempt on the deleted message settles, the entry of this
\* message goes and no other entry, message or timer changes.
C22_SweepLeavesRegistry ==
  [][/\ \A m \in Msgs :
          (dm[m] = "live" /\ dm'[m] = "deleted"
             /\ \A t \in Timers : timer[t].state = "running" => timer'[t].state = "running")
            => (scheduledDeletions' = scheduledDeletions /\ timer' = timer
                  /\ drained' = drained)
     /\ \A t \in Timers :
          (timer[t].state = "running" /\ timer'[t].state = "done"
             /\ dm[timer[t].message] = "deleted")
            => /\ scheduledDeletions'[timer[t].message] = 0
               /\ \A n \in Msgs \ {timer[t].message} :
                    scheduledDeletions'[n] = scheduledDeletions[n]
               /\ dm' = dm
               /\ \A u \in Timers \ {t} : timer'[u] = timer[u]]_vars

\* C22 happens: a message the sweep deleted has had its timer fire since;
\* the callback is under way and the entry still there.
C22_Witness ==
  \E m \in Msgs :
    /\ dm[m] = "deleted" /\ scheduledDeletions[m] # 0
    /\ timer[scheduledDeletions[m]].state = "running"

----------------------------------------------------------------------------
\* The screenshot classifier (isValidProfileScreenshot).
\*
\* A text is the sequence of the words OCR read, in reading order; white space
\* separates the words, and a ":" follows its word without a space ("Rank:").
\* A pattern is matched against whole words: /shop/ matching inside a longer
\* word is not modelled.

\* The most words of a text made of Words.
MaxWords == 2

\* String.prototype.toLowerCase, the i flag of the patterns.
toLowerCase(w) ==
  CASE w = "Profile" -> "profile"
    [] w = "Rank" -> "rank"
    [] w = "Level" -> "level"
    [] w = "Progress" -> "progress"
    [] w = "Silver" -> "silver"
    [] w = "Gold" -> "gold"
    [] w = "Ball" -> "ball"
    [] w = "Pool" -> "pool"
    [] w = "Miniclip" -> "miniclip"
    [] w = "Play" -> "play"
    [] w = "Special" -> "special"
    [] w = "Shop" -> "shop"
    [] OTHER -> w

\* A pattern of literal words, each position with its alternatives; rest is
\* TRUE for a pattern ending in [:\-]?\s*[a-z\s]+ after the words.
Pattern(words, rest) == [words |-> words, rest |-> rest]

\* const mainMenuIndicators = [...]
mainMenuIndicators ==
  << Pattern(<<{"8"}, {"ball"}, {"pool"}, {"by"}, {"miniclip"}>>, FALSE),
     Pattern(<<{"play"}, {"special"}>>, FALSE),
     Pattern(<<{"play"}, {"minigames"}>>, FALSE),
     Pattern(<<{"play"}, {"with"}, {"friends"}>>, FALSE),
     Pattern(<<{"pool"}, {"pass"}>>, FALSE),
     Pattern(<<{"free"}, {"rewards"}>>, FALSE),
     Pattern(<<{"leaderboards"}>>, FALSE),
     Pattern(<<{"shop"}>>, FALSE),
     Pattern(<<{"clubs"}>>, FALSE),
     Pattern(<<{"one"}, {"&"}, {"done"}>>, FALSE),
     Pattern(<<{"event"}, {"hyperspace"}>>, FALSE),
     Pattern(<<{"brainrot"}, {"shop"}>>, FALSE) >>

\* const profileIndicators = [...]
profileIndicators ==
  << Pattern(<<{"profile"}>>, FALSE),
     Pattern(<<{"rank"}>>, TRUE),
     Pattern(<<{"level", "evel", "lvl"}, {"progress"}>>, FALSE),
     Pattern(<<{"unique"}, {"id"}>>, FALSE),
     Pattern(<<{"player"}, {"stats"}>>, FALSE) >>

\* The pattern matches the text from its i-th word on.  The rest
\* [:\-]?\s*[a-z\s]+ needs one letter or space after the words: the space
\* before a next word, which a ":" ending the text does not have.
MatchesAt(pattern, text, i) ==
  LET n == Len(pattern.words) IN
    /\ i + n - 1 <= Len(text)
    /\ \A k \in 1..n : toLowerCase(text[i + k - 1]) \in pattern.words[k]
    /\ pattern.rest =>
         /\ i + n <= Len(text)
         /\ text[i + n] = ":" => i + n + 1 <= Len(text)

\* pattern.test(text)
test(pattern, text) == \E i \in 1..Len(text) : MatchesAt(pattern, text, i)

\* for (const pattern of patterns) { if (pattern.test(text)) return ... },
\* from the k-th pattern on: some pattern matched.
RECURSIVE SomeTest(_, _, _)
SomeTest(patterns, text, k) ==
  IF k > Len(patterns) THEN FALSE
  ELSE IF test(patterns[k], text) THEN TRUE
  ELSE SomeTest(patterns, text, k + 1)

\* The second loop, from the k-th pattern on: hasProfileIndicator, set and the
\* loop left at the first pattern that matches.
RECURSIVE ProfileLoop(_, _, _, _)
ProfileLoop(has, patterns, text, k) ==
  IF k > Len(patterns) THEN has
  ELSE IF test(patterns[k], text) THEN TRUE
  ELSE ProfileLoop(has, patterns, text, k + 1)

\* The body of isValidProfileScreenshot over the two pattern lists.
ClassifyWith(mainMenu, profile, text) ==
  IF SomeTest(mainMenu, text, 1) THEN FALSE
  ELSE IF ~ProfileLoop(FALSE, profile, text, 1) THEN FALSE
  ELSE TRUE

\* isValidProfileScreenshot with the profile indicators looked at first.
isValidProfileScreenshotProfileFirst(text) ==
  IF ProfileLoop(FALSE, profileIndicators, text, 1) THEN TRUE
  ELSE IF SomeTest(mainMenuIndicators, text, 1) THEN FALSE
  ELSE FALSE

\* isValidProfileScreenshot without the final check of hasProfileIndicator.
isValidProfileScreenshotNoCheck(text) ==
  IF SomeTest(mainMenuIndicators, text, 1) THEN FALSE ELSE TRUE

\* function isValidProfileScreenshot(text: string): boolean
isValidProfileScreenshot(text) ==
  ClassifyWith(mainMenuIndicators, profileIndicators, text)

\* The words of the generated texts: a qualifying word, a word that qualifies
\* only when followed, a disqualifying word and a number.
Words == {"Profile", "rank", "shop", "42"}

\* A main-menu screen that also shows a level.
MainMenuText ==
  <<"8", "Ball", "Pool", "by", "Miniclip", "Level", "Progress", "42", "Play", "Special">>

\* A profile screen: "Profile ... Level Progress 42 ... Rank: Silver".
ProfileText == <<"Profile", "...", "Level", "Progress", "42", "...", "Rank", ":", "Silver">>

\* Texts read off screenshots: the two screens, "Rank:" with nothing after
\* it, and profile screens with a level at, inside and outside the bounds of
\* the tiers, with and without a rank name.
SampleTexts ==
  { MainMenuText, ProfileText, <<"Rank", ":">>, <<"Profile", "Silver">>,
    <<"Profile", "Level", "20">>, <<"Profile", "Level", "30">>,
    <<"Profile", "lvl", "59">>, <<"Profile", "evel", "60">>,
    <<"Profile", "Level", "Progress", "99">>, <<"Profile", "Level", "100">>,
    <<"Profile", "Level", "20", "Gold">>, <<"Profile", "Level", "42", "Gold">>,
    <<"Profile", "Level", "Progress">> }

Texts == SampleTexts \cup UNION { [1..n -> Words] : n \in 0..MaxWords }

\* The texts of the calls remembered: one that a main-menu pattern rejects,
\* one accepted, one rejected for want of an indicator.
KeptTexts == { MainMenuText, ProfileText, <<"Rank", ":">> }

\* Classify with hasProfileIndicator kept between the calls (a variable of
\* the module, never reset).
ClassifySticky(text, keep) ==
  /\ calls < MaxCalls
  /\ calls' = calls + 1
  /\ ocrText' = text
  /\ hasProfileIndicator' =
       IF SomeTest(mainMenuIndicators, text, 1) THEN hasProfileIndicator
       ELSE ProfileLoop(hasProfileIndicator, profileIndicators, text, 1)
  /\ classified' = (~SomeTest(mainMenuIndicators, text, 1) /\ hasProfileIndicator')
  /\ IF keep
     THEN seenText' = text /\ seenClassified' = classified' /\ seenAt' = calls'
     ELSE UNCHANGED <<seenText, seenClassified, seenAt>>

\* One call isValidProfileScreenshot(text); keep: the call is remembered, to
\* compare later calls with.  hasProfileIndicator is the call's own local,
\* declared false after the first loop.
Classify(text, keep) ==
  /\ calls < MaxCalls
  /\ calls' = calls + 1
  /\ ocrText' = text
  /\ hasProfileIndicator' =
       IF SomeTest(mainMenuIndicators, text, 1) THEN FALSE
       ELSE ProfileLoop(FALSE, profileIndicators, text, 1)
  /\ classified' = isValidProfileScreenshot(text)
  /\ IF keep
     THEN seenText' = text /\ seenClassified' = classified' /\ seenAt' = calls'
     ELSE UNCHANGED <<seenText, seenClassified, seenAt>>

NextClassifier ==
  \/ \E text \in Texts : Classify(text, FALSE) /\ UNCHANGED <<pipeline, sched, channel, interaction, others>>
  \/ \E text \in KeptTexts : Classify(text, TRUE) /\ UNCHANGED <<pipeline, sched, channel, interaction, others>>

\* Calls of the classifier, on any texts in any order.
SpecClassifier == Init /\ [][NextClassifier]_vars

----------------------------------------------------------------------------
\* Claims about the classifier.

\* reverse of a list of patterns (another order of evaluation).
Reverse(patterns) ==
  [k \in 1..Len(patterns) |-> patterns[Len(patterns) + 1 - k]]

\* Some pattern of the set matches the text.
MatchesSome(patterns, text) ==
  \E k \in DOMAIN patterns : \E i \in 1..Len(text) : MatchesAt(patterns[k], text, i)

\* C23: a text matching any main-menu (disqualifying) pattern is classified
\* false, whether or not qualifying patterns match too: a screen with
\* "8 Ball Pool by Miniclip" and "Play Special" is not a profile.
C23_DisqualifyingFirst ==
  (calls >= 1 /\ MatchesSome(mainMenuIndicators, ocrText)) => ~classified

\* The main-menu screen, which also matches a qualifying pattern, was
\* classified false.
C23_Witness ==
  /\ calls >= 1 /\ ocrText = MainMenuText /\ ~classified
  /\ MatchesSome(profileIndicators, ocrText)

\* C24: the classifier returns true exactly when no disqualifying pattern
\* matches and at least one qualifying pattern does; text matching neither
\* set is classified false.
C24_TrueIffQualifiedOnly ==
  calls >= 1 =>
    (classified <=> /\ ~MatchesSome(mainMenuIndicators, ocrText)
                    /\ MatchesSome(profileIndicators, ocrText))

\* A text with words that matches neither set was classified false.
C24_Witness ==
  /\ calls >= 1 /\ Len(ocrText) > 0 /\ ~classified
  /\ ~MatchesSome(mainMenuIndicators, ocrText)
  /\ ~MatchesSome(profileIndicators, ocrText)

----------------------------------------------------------------------------
\* The rank matcher (rankMatcher.matchRank) and a submission followed from
\* its text to the store.

\* The number a numeric word denotes, or none.
Number(w) ==
  CASE w = "8" -> 8
    [] w = "20" -> 20
    [] w = "30" -> 30
    [] w = "42" -> 42
    [] w = "59" -> 59
    [] w = "60" -> 60
    [] w = "99" -> 99
    [] w = "100" -> 100
    [] OTHER -> Undefined

\* The forms of the level marker, with the OCR substitutions tolerated.
LevelMarkers == {"level", "evel", "lvl"}

\* The number next to the level marker at the i-th word ("Level 42",
\* "Level Progress 42"), or none.
LevelAt(text, i) ==
  IF i > Len(text) \/ toLowerCase(text[i]) \notin LevelMarkers THEN Undefined
  ELSE IF i + 1 <= Len(text) /\ Number(text[i + 1]) # Undefined THEN Number(text[i + 1])
  ELSE IF /\ i + 2 <= Len(text)
          /\ toLowerCase(text[i + 1]) = "progress"
          /\ Number(text[i + 2]) # Undefined
  THEN Number(text[i + 2])
  ELSE Undefined

\* The level the scan finds: the number at the first marker that has one.
DetectedLevel(text) ==
  LET found == { i \in 1..Len(text) : LevelAt(text, i) # Undefined } IN
    IF found = {} THEN Undefined
    ELSE LevelAt(text, CHOOSE i \in found : \A j \in found : i <= j)

\* TierOfLevel by level_min alone: the first tier that starts at or below n.
TierOfLevelFromMin(n) ==
  LET tiers == { i \in DOMAIN RankTable : RankTable[i].level_min <= n } IN
    IF tiers = {} THEN NullTier
    ELSE RankTable[CHOOSE i \in tiers : \A j \in tiers : i <= j]

\* The tier whose [level_min, level_max] contains n, or none.
TierOfLevel(n) ==
  LET tiers == { i \in DOMAIN RankTable :
                   RankTable[i].level_min <= n /\ n <= RankTable[i].level_max } IN
    IF tiers = {} THEN NullTier
    ELSE RankTable[CHOOSE i \in tiers : \A j \in tiers : i <= j]

\* The word scores above the similarity threshold against the rank name: the
\* name in any case, or the name with an OCR substitution.
Similar(w, rank_name) ==
  \/ toLowerCase(w) = toLowerCase(rank_name)
  \/ <<w, rank_name>> \in { <<"Si1ver", "Silver">>, <<"Go1d", "Gold">> }

\* The fallback: the first tier of the table a word of the text is similar
\* to, or none.
TierOfName(text) ==
  LET tiers == { i \in DOMAIN RankTable :
                   \E k \in 1..Len(text) : Similar(text[k], RankTable[i].rank_name) } IN
    IF tiers = {} THEN NullTier
    ELSE RankTable[CHOOSE i \in tiers : \A j \in tiers : i <= j]

\* A MatchedRank: the tier with the level read and the confidence.
Matched(tier, level, confidence) ==
  [rank_name |-> tier.rank_name, level_min |-> tier.level_min,
   level_max |-> tier.level_max, role_id |-> tier.role_id,
   level_detected |-> level, confidence |-> confidence]

\* rankMatcher.matchRank(text): the tier of the level found next to a level
\* marker (the high-confidence path, preferred); failing that the tier of a
\* similar rank name; failing that null.
matchRank(text) ==
  LET level == DetectedLevel(text)
      byLevel == IF level = Undefined THEN NullTier ELSE TierOfLevel(level)
      byName == TierOfName(text)
  IN IF byLevel # NullTier THEN Matched(byLevel, level, 90)
     ELSE IF byName # NullTier THEN Matched(byName, Undefined, 60)
     ELSE NullRank

\* One turn of the for-loop on an attachment that downloads and whose OCR
\* reads text: isValidProfileScreenshot(text), then matchRank(text).
ProcessText(h, text) ==
  /\ ProcessImage(h, TRUE, TRUE, isValidProfileScreenshot(text), matchRank(text))
  /\ ocrText' = text
  /\ UNCHANGED <<classified, hasProfileIndicator, seenText, seenClassified, seenAt, calls>>

\* The steps of a handler after the loop over the attachments.
AfterImages(h) ==
  \/ Reconcile(h)
  \/ \E delivered \in BOOLEAN : SendRejectDM(h, delivered)
  \/ \E fetched \in {"member", "undefined", "throws"} : FetchMember(h, fetched)
  \/ \E found \in BOOLEAN : GetVerification(h, found)
  \/ \E assigned \in BOOLEAN : AssignRole(h, assigned)
  \/ \E written \in BOOLEAN : UpsertVerification(h, written)
  \/ \E delivered \in BOOLEAN : SendVerificationDM(h, delivered)
  \/ \E deleted \in BOOLEAN : DeleteMessage(h, deleted)
  \/ \E delivered \in BOOLEAN : CatchError(h, delivered)

NextEndToEnd ==
  \/ Deliver(1, "u1", 1) /\ UNCHANGED <<sched, classifier, channel, interaction, others>>
  \/ \E text \in Texts : ProcessText(1, text) /\ UNCHANGED <<sched, channel, interaction, others>>
  \/ AfterImages(1) /\ UNCHANGED <<sched, classifier, channel, interaction, others>>

\* Messages of one user, of one image each, one at a time, followed from the
\* text OCR reads to the store and the roles.
SpecEndToEnd == Init /\ [][NextEndToEnd]_vars

----------------------------------------------------------------------------
\* Claims about a submission followed from its text.

\* C26: a single-attachment submission whose text is "Profile ... Level
\* Progress 42 ... Rank: Silver", with the table Silver [30,59], Gold [60,99],
\* is classified as a profile screen and matched to Silver with level 42;
\* with no prior record the decision is Accept; and the accepted submission
\* has the Silver role granted and the record (Silver, 42) upserted.
C26_EndToEndAccept ==
  /\ [](\A h \in Handlers :
          (ocrText = ProfileText /\ pc[h] = "reconcile") =>
            /\ Len(results[h]) = 1
            /\ results[h][1].success
            /\ results[h][1].rank.rank_name = "Silver"
            /\ results[h][1].rank.level_detected = 42
            /\ results[h][1].level = 42)
  /\ [][\A h \in Handlers :
          ( /\ ocrText = ProfileText
            /\ pc[h] = "get_verification" /\ pc'[h] \notin {"get_verification", "error_dm"}
            /\ store[author[h]] = NullRecord )
          => (outcome'[h] = "Accept" /\ pc'[h] = "assign_role")]_vars
  /\ [](\A h \in Handlers :
          (ocrText = ProfileText /\ pc[h] \in {"verified_dm", "accept_delete"}) =>
            /\ outcome[h] = "Accept"
            /\ grants[h] = 1 /\ role[author[h]] = "role_silver"
            /\ upserts[h] = 1
            /\ store[author[h]] = [rank_name |-> "Silver", level_detected |-> 42,
                                   role_id_assigned |-> "role_silver"])

\* The first submission of a user, with that text, was accepted.
C26_Witness ==
  \E h \in Handlers :
    /\ ocrText = ProfileText /\ pc[h] = "accept_delete" /\ outcome[h] = "Accept"
    /\ \A u \in Users : u # author[h] => store[u] = NullRecord
    /\ store[author[h]].level_detected = 42 /\ role[author[h]] = "role_silver"

\* The tiers of the table whose range contains the level.
TiersContaining(level) ==
  { i \in DOMAIN RankTable :
      RankTable[i].level_min <= level /\ level <= RankTable[i].level_max }

\* C27: a detected level is resolved to the one tier whose [level_min,
\* level_max] contains it: the matcher never returns a tier whose range does
\* not contain the detected level, no level is in two tiers, and no rank is
\* returned when no tier contains the level and no name is similar enough.
C27_LevelResolvesToItsTier ==
  \A h \in Handlers :
    (pc[h] = "reconcile" /\ Len(results[h]) = 1 /\ results[h][1].isProfile # "false") =>
      LET r == results[h][1]
          level == DetectedLevel(ocrText)
      IN /\ Cardinality(TiersContaining(level)) <= 1
         /\ r.success =>
              \E i \in DOMAIN RankTable :
                /\ r.rank.rank_name = RankTable[i].rank_name
                /\ r.rank.level_min = RankTable[i].level_min
                /\ r.rank.level_max = RankTable[i].level_max
         /\ (r.success /\ r.rank.level_detected # Undefined) =>
              /\ r.rank.level_detected = level
              /\ r.rank.level_min <= level /\ level <= r.rank.level_max
         /\ (level # Undefined /\ TiersContaining(level) # {}) =>
              /\ r.success
              /\ \A i \in TiersContaining(level) : r.rank.rank_name = RankTable[i].rank_name
         /\ ( /\ level = Undefined \/ TiersContaining(level) = {}
              /\ \A i \in DOMAIN RankTable, k \in 1..Len(ocrText) :
                   ~Similar(ocrText[k], RankTable[i].rank_name) )
            => (~r.success /\ r.rank = NullRank)

\* A level at the upper bound of Silver, on a profile screen, was resolved to
\* Silver.
C27_Witness ==
  \E h \in Handlers :
    /\ pc[h] = "reconcile" /\ ocrText = <<"Profile", "lvl", "59">>
    /\ Len(results[h]) = 1 /\ results[h][1].rank.rank_name = "Silver"
    /\ results[h][1].rank.level_detected = 59

----------------------------------------------------------------------------
\* Claims about the source message.

\* C28: every submission the handler processes has a deletion of its source
\* message attempted before the handler finishes, on every path: a handler
\* that has returned has called message.delete() at least once.
C28_SourceDeletionAttempted ==
  \A h \in Handlers : pc[h] = "done" => deletes[h] >= 1

----------------------------------------------------------------------------
\* The instructions message of the verification channel
\* (sendVerificationChannelInstructions, called by the ready handler).

\* The most messages the channel holds.
MaxChannel == 12

\* channel.messages.fetch({ limit: 10 })
FetchLimit == 10

\* What the fetch returns: the newest FetchLimit messages of the channel.
Fetched(messages) ==
  IF Len(messages) <= FetchLimit THEN messages
  ELSE SubSeq(messages, Len(messages) - FetchLimit + 1, Len(messages))

\* messages.find(...): a bot-authored message whose first embed carries the
\* instructions title is among the messages.
existingInstructions(messages) ==
  \E i \in DOMAIN messages : messages[i] = "instructions"

\* Anyone posts a message that stays in the channel (text, or a message the
\* handler does not delete).
PostMessage ==
  /\ Len(channel) < MaxChannel
  /\ channel' = Append(channel, "other")

\* A start of the bot: the ready handler calls
\* sendVerificationChannelInstructions.  fetched: the fetch of the recent
\* messages succeeds (a failure is logged and the message is sent anyway);
\* sent: channel.send succeeds.
Startup(fetched, sent) ==
  /\ Len(channel) < MaxChannel
  /\ IF fetched /\ existingInstructions(Fetched(channel))
     THEN UNCHANGED channel
     ELSE IF sent
     THEN channel' = Append(channel, "instructions")
     ELSE UNCHANGED channel

NextStartup ==
  \/ PostMessage /\ UNCHANGED <<pipeline, sched, classifier, interaction, others>>
  \/ \E fetched, sent \in BOOLEAN :
       Startup(fetched, sent) /\ UNCHANGED <<pipeline, sched, classifier, interaction, others>>

\* Starts of the bot, with messages posted to the channel in between.
SpecStartup == Init /\ [][NextStartup]_vars

\* C29: after any number of startups, with any messages posted in between,
\* the channel holds at most one bot-authored instructions message.
C29_OneInstructionsMessage ==
  Cardinality({ i \in DOMAIN channel : channel[i] = "instructions" }) <= 1

----------------------------------------------------------------------------
\* Slash commands (handleSlashCommand).

\* The commands the admin switch has a case for.
AdminCommands == {"recheck", "setrank", "removerank", "purgedb", "logs", "instructions"}

\* The commands the moderator switch has a case for.
ModeratorCommands == {"checkrank", "listverified"}

\* The command names an interaction may carry; "unknown" is any other name.
Commands == AdminCommands \cup ModeratorCommands \cup {"help", "unknown"}

\* handleSlashCommand up to its first await: the permissions are looked up
\* and interaction.deferReply is awaited, outside the try: if it rejects the
\* handler ends there, rejected.
DeferReply(name, admin, moderator, deferred) ==
  /\ ipc \in {"idle", "done", "rejected"}
  /\ commandName' = name
  /\ isUserAdmin' = admin
  /\ isUserModerator' = moderator
  /\ handlerCalled' = "none"
  /\ replies' = {}
  /\ ipc' = IF deferred THEN "deferred" ELSE "rejected"

\* The handler a command goes to for this user, as the gates and the two
\* switches decide.
Route(name, admin, moderator) ==
  IF admin /\ name \in AdminCommands THEN "handleAdminCommand"
  ELSE IF moderator /\ name \in ModeratorCommands THEN "handleModeratorCommand"
  ELSE IF name = "help" THEN "handleModeratorCommand"
  ELSE "none"

\* Dispatch with the moderator gate in front of the admin switch too.
DispatchModeratorsAdmin(ran) ==
  /\ ipc = "deferred"
  /\ ran \in {"returns", "throws_before", "throws"}
  /\ LET handler == Route(commandName, isUserAdmin \/ isUserModerator, isUserModerator) IN
       /\ ran = "throws_before" => handler # "none"
       /\ handlerCalled' = IF ran = "throws_before" THEN "none" ELSE handler
       /\ replies' =
            CASE ran = "returns" -> IF handler = "none" THEN {"denied"} ELSE {"handler"}
              [] ran = "throws_before" -> {"error"}
              [] OTHER -> IF handler = "none" THEN {"denied", "error"} ELSE {"error"}
  /\ ipc' = "done"
  /\ UNCHANGED <<commandName, isUserAdmin, isUserModerator>>

\* The try block and its catch.  ran: everything returns; a case of a switch
\* throws before it calls its handler (reading an option); or the handler, or
\* the editReply of the reply, throws: the catch then edits the error reply
\* in.
Dispatch(ran) ==
  /\ ipc = "deferred"
  /\ ran \in {"returns", "throws_before", "throws"}
  /\ LET handler == Route(commandName, isUserAdmin, isUserModerator) IN
       /\ ran = "throws_before" => handler # "none"
       /\ handlerCalled' = IF ran = "throws_before" THEN "none" ELSE handler
       /\ replies' =
            CASE ran = "returns" -> IF handler = "none" THEN {"denied"} ELSE {"handler"}
              [] ran = "throws_before" -> {"error"}
              [] OTHER -> IF handler = "none" THEN {"denied", "error"} ELSE {"error"}
  /\ ipc' = "done"
  /\ UNCHANGED <<commandName, isUserAdmin, isUserModerator>>

NextCommands ==
  \/ \E name \in Commands, admin, moderator, deferred \in BOOLEAN :
       /\ DeferReply(name, admin, moderator, deferred)
       /\ UNCHANGED <<pipeline, sched, classifier, channel, others>>
  \/ \E ran \in {"returns", "throws_before", "throws"} :
       Dispatch(ran) /\ UNCHANGED <<pipeline, sched, classifier, channel, others>>

\* Slash commands, one interaction at a time.
SpecCommands == Init /\ [][NextCommands]_vars

\* C30: the admin commands reach their handler only for admins and the
\* moderator commands only for moderators; every other invocation, help
\* apart, invokes no handler and gets the permission-denied reply.
C30_CommandsAuthorized ==
  /\ (handlerCalled # "none" /\ commandName \in AdminCommands) =>
       (isUserAdmin /\ handlerCalled = "handleAdminCommand")
  /\ (handlerCalled # "none" /\ commandName \in ModeratorCommands) =>
       (isUserModerator /\ handlerCalled = "handleModeratorCommand")
  /\ ( /\ ipc = "done" /\ commandName # "help"
       /\ ~(isUserAdmin /\ commandName \in AdminCommands)
       /\ ~(isUserModerator /\ commandName \in ModeratorCommands) )
     => (handlerCalled = "none" /\ "denied" \in replies)

\* A moderator who is no admin asked for purgedb and was denied.
C30_Witness ==
  /\ ipc = "done" /\ commandName = "purgedb" /\ ~isUserAdmin /\ isUserModerator
  /\ handlerCalled = "none" /\ replies = {"denied"}

----------------------------------------------------------------------------
\* Claims about the registry under interleaved calls.

\* C31: registry and timers stay in correspondence under every interleaving
\* of schedule, cancel, firing and the settling of the delete: every pending
\* timer is the timer of the registry entry of its message, so that cancel
\* and drain reach it.
C31_PendingTimerRegistered ==
  \A t \in Timers :
    timer[t].state = "pending" => scheduledDeletions[timer[t].message] = t

----------------------------------------------------------------------------
\* Claims about the role and the record of a user.

\* C32: whenever no submission of a user is in flight, the rank role the
\* pipeline last granted to the user is the role_id_assigned of the user's
\* stored record (neither, before the first grant).
C32_RoleAgreesWithRecord ==
  \A u \in Users :
    (\A h \in Handlers : InFlight(h) => author[h] # u) =>
      role[u] = store[u].role_id_assigned

----------------------------------------------------------------------------
\* Claims about the no-downgrade check.

\* C33: a submission whose best match has the rank of the stored record is
\* accepted, not rejected: the handler goes on to the role grant, and an
\* accepted submission has had its role grant, its upsert and its
\* confirmation applied.
C33_SameRankAccepted ==
  /\ [][\A h \in Handlers :
          ( /\ pc[h] = "get_verification"
            /\ pc'[h] \notin {"get_verification", "error_dm"}
            /\ store[author[h]].rank_name = bestMatch[h].rank.rank_name )
          => (outcome'[h] = "Accept" /\ pc'[h] = "assign_role")]_vars
  /\ [](\A h \in Handlers :
          pc[h] = "accept_delete" =>
            /\ grants[h] = 1 /\ upserts[h] = 1 /\ sends[h] = 1
            /\ store[author[h]].rank_name = bestMatch[h].rank.rank_name
            /\ role[author[h]] = bestMatch[h].rank.role_id)

\* A submission matched to the rank already stored is on its way to the role
\* grant.
C33_Witness ==
  \E h \in Handlers :
    /\ pc[h] = "assign_role" /\ outcome[h] = "Accept"
    /\ store[author[h]] # NullRecord
    /\ store[author[h]].rank_name = bestMatch[h].rank.rank_name

----------------------------------------------------------------------------
\* Records of ranks the table does not hold.

\* A record whose rank_name is no rank of the table.
ForeignRecord ==
  [rank_name |-> "Bronze", level_detected |-> 10, role_id_assigned |-> "role_bronze"]

\* The store holds a record written under another rank table (the store
\* outlives the table, which is loaded at startup), while no handler runs.
StoreHoldsForeign(u) ==
  /\ \A h \in Handlers : ~InFlight(h)
  /\ store[u] # ForeignRecord
  /\ store' = upsertVerification(store, u, ForeignRecord)
  /\ UNCHANGED <<pc, author, pending, results, bestMatch, outcome, failure,
                 grants, upserts, notice, msgLive, role, counts>>

NextForeign ==
  \/ StoreHoldsForeign("u1") /\ UNCHANGED <<sched, classifier, channel, interaction, others>>
  \/ Deliver(1, "u1", 1) /\ UNCHANGED <<sched, classifier, channel, interaction, others>>
  \/ Step(1, {m \in MatchedRanks : m.confidence = 90})
       /\ UNCHANGED <<sched, classifier, channel, interaction, others>>

\* Messages of one user, of one image each, one at a time, with records of
\* unknown ranks appearing in the store between them.
SpecForeign == Init /\ [][NextForeign]_vars

\* C34: when the rank_name of the prior record is no rank of the table, the
\* no-downgrade check ignores the record: the submission is accepted whatever
\* its best match, and the upsert overwrites the record.
C34_UnknownPriorIgnored ==
  [][\A h \in Handlers :
       LET prior == store[author[h]] IN
         (prior # NullRecord /\ getRankByName(prior.rank_name) = NullTier) =>
           /\ (pc[h] = "get_verification" /\ pc'[h] \notin {"get_verification", "error_dm"})
                => (outcome'[h] = "Accept" /\ pc'[h] = "assign_role")
           /\ (pc[h] = "upsert" /\ pc'[h] = "verified_dm")
                => /\ store'[author[h]].rank_name = bestMatch[h].rank.rank_name
                   /\ store'[author[h]].role_id_assigned = bestMatch[h].rank.role_id]_vars

\* A submission was accepted over a record of an unknown rank: its role is
\* granted and the record is about to be overwritten.
C34_Witness ==
  \E h \in Handlers :
    /\ pc[h] = "upsert" /\ outcome[h] = "Accept"
    /\ store[author[h]] = ForeignRecord
    /\ role[author[h]] = bestMatch[h].rank.role_id

----------------------------------------------------------------------------
\* The gate of handleMessageCreate.

\* HandleMessageCreate without the check of message.author.bot.
HandleMessageCreateBots(h, u, bot, rankChannel, images) ==
  /\ ~InFlight(h)
  /\ received' = [bot |-> bot, rankChannel |-> rankChannel, images |-> images]
  /\ IF ~rankChannel THEN UNCHANGED pipeline
     ELSE IF images = 0 THEN UNCHANGED pipeline
     ELSE (\A g \in Handlers : ~InFlight(g)) /\ Deliver(h, u, images)

\* handleMessageCreate up to its first await: the three early returns (a bot
\* wrote the message; it is not in the rank channel; it has no image
\* attachment), and the start of the pipeline otherwise.  A message that
\* passes is taken while no other handler runs.
HandleMessageCreate(h, u, bot, rankChannel, images) ==
  /\ ~InFlight(h)
  /\ received' = [bot |-> bot, rankChannel |-> rankChannel, images |-> images]
  /\ IF bot THEN UNCHANGED pipeline
     ELSE IF ~rankChannel THEN UNCHANGED pipeline
     ELSE IF images = 0 THEN UNCHANGED pipeline
     ELSE (\A g \in Handlers : ~InFlight(g)) /\ Deliver(h, u, images)

NextGate ==
  \/ \E bot, rankChannel \in BOOLEAN, images \in {0, 1} :
       /\ HandleMessageCreate(1, "u1", bot, rankChannel, images)
       /\ UNCHANGED <<sched, classifier, channel, interaction, sweep, ocr, shutdown>>
  \/ \E h \in Handlers \ {1}, bot, rankChannel \in BOOLEAN, images \in {0, 1} :
       /\ bot \/ ~rankChannel \/ images = 0
       /\ HandleMessageCreate(h, "u1", bot, rankChannel, images)
       /\ UNCHANGED <<sched, classifier, channel, interaction, sweep, ocr, shutdown>>
  \/ Step(1, {m \in MatchedRanks : m.confidence = 90})
       /\ UNCHANGED <<sched, classifier, channel, interaction, others>>

\* Every message the client hands to the handler, of one user and of at most
\* one image: those that pass the gate one at a time, the others also while
\* the handler of a submission runs.
SpecGate == Init /\ [][NextGate]_vars

\* C35: a message written by a bot, posted outside the rank channel, or
\* without an image attachment has no effect: nothing of the handlers, the
\* store, the roles, the counts of downloads, notifications and deletions,
\* or the scheduler changes when it arrives.
C35_GateNoEffect ==
  [][( /\ received' # received
       /\ received'.bot \/ ~received'.rankChannel \/ received'.images = 0 )
     => UNCHANGED <<pipeline, sched>>]_vars

\* A bot's message with an image arrived in the rank channel while the
\* handler of a submission was past its role grant, and started nothing.
C35_Witness ==
  /\ received.bot /\ received.rankChannel /\ received.images = 1
  /\ \E h \in Handlers : InFlight(h) /\ grants[h] = 1

----------------------------------------------------------------------------
\* The sweep of the DM channels at startup (deleteAllBotDMs in full).
\*
\* The sweep has two loops: over the cached users (createDM, fetch, delete
\* each bot message) and over the cached DM channels (fetch, delete each bot
\* message).  A turn is one pass of the body of either loop; the cached DM
\* channels are those of the cached users.

\* The turns of the two loops, in order: the users, then the channels.
Turns == 1..(MaxSweepUsers + MaxSweepUsers)

\* The user whose DM channel a turn works on.
UserOf(turn) == IF turn <= MaxSweepUsers THEN turn ELSE turn - MaxSweepUsers

\* The next turn, or the end of the sweep.
TurnEnds ==
  /\ sweepQueue' = {}
  /\ IF sweepAt + 1 \in Turns
     THEN sweepAt' = sweepAt + 1 /\ sweepState' = "opening"
     ELSE sweepAt' = sweepAt /\ sweepState' = "returned"

\* deleteAllBotDMs is called (by the ready handler).  Without a client it
\* warns and returns.
SweepStarts(available) ==
  /\ sweepState = "idle"
  /\ IF available
     THEN sweepState' = "opening" /\ sweepAt' = 1
     ELSE sweepState' = "returned" /\ sweepAt' = 0
  /\ UNCHANGED <<sweepQueue, dmExists, visited, listed, attempted>>

\* A turn begins: await user.createDM() and await messages.fetch (or the
\* fetch alone, on a cached channel).  opened: neither throws; a throw is
\* caught by the turn's catch and the loop goes on.
OpenChannel(opened) ==
  /\ sweepState = "opening"
  /\ visited' = visited \cup {sweepAt}
  /\ IF opened /\ dmExists[UserOf(sweepAt)] # {}
     THEN /\ sweepQueue' = dmExists[UserOf(sweepAt)]
          /\ listed' = listed \cup { <<sweepAt, m>> : m \in dmExists[UserOf(sweepAt)] }
          /\ sweepState' = "deleting"
          /\ UNCHANGED sweepAt
     ELSE TurnEnds /\ UNCHANGED listed
  /\ UNCHANGED <<dmExists, attempted>>

\* DeleteBotMessage with the inner try/catch lost: a failed delete is caught
\* by the turn's catch and the rest of the channel is left.
DeleteBotMessageLeaves(result) ==
  /\ sweepState = "deleting"
  /\ result \in {"deleted", "unknown_message", "failed"}
  /\ LET m == CHOOSE x \in sweepQueue : \A y \in sweepQueue : x <= y IN
       /\ attempted' = attempted \cup { <<sweepAt, m>> }
       /\ dmExists' = [dmExists EXCEPT ![UserOf(sweepAt)] =
                         IF result = "failed" THEN @ ELSE @ \ {m}]
       /\ IF sweepQueue = {m} \/ result # "deleted"
          THEN TurnEnds
          ELSE sweepQueue' = sweepQueue \ {m} /\ UNCHANGED <<sweepAt, sweepState>>
  /\ UNCHANGED <<visited, listed>>

\* One turn of the inner loop: await message.delete() on the next fetched
\* message; a throw (the message is gone already, or any other failure) is
\* caught and counted, and the loop goes on.
DeleteBotMessage(result) ==
  /\ sweepState = "deleting"
  /\ result \in {"deleted", "unknown_message", "failed"}
  /\ LET m == CHOOSE x \in sweepQueue : \A y \in sweepQueue : x <= y IN
       /\ attempted' = attempted \cup { <<sweepAt, m>> }
       /\ dmExists' = [dmExists EXCEPT ![UserOf(sweepAt)] =
                         IF result = "failed" THEN @ ELSE @ \ {m}]
       /\ IF sweepQueue = {m}
          THEN TurnEnds
          ELSE sweepQueue' = sweepQueue \ {m} /\ UNCHANGED <<sweepAt, sweepState>>
  /\ UNCHANGED <<visited, listed>>

NextSweep ==
  \/ \E available \in BOOLEAN :
       /\ SweepStarts(available)
       /\ UNCHANGED <<pipeline, sched, classifier, channel, interaction, received, ocr, shutdown>>
  \/ \E opened \in BOOLEAN :
       /\ OpenChannel(opened)
       /\ UNCHANGED <<pipeline, sched, classifier, channel, interaction, received, ocr, shutdown>>
  \/ \E result \in {"deleted", "unknown_message", "failed"} :
       /\ DeleteBotMessage(result)
       /\ UNCHANGED <<pipeline, sched, classifier, channel, interaction, received, ocr, shutdown>>

\* One call of deleteAllBotDMs.
SpecSweep == Init /\ [][NextSweep]_vars

\* C36: the sweep is best-effort: a failure to delete a message, or to open
\* or read a user's DM channel, does not stop it: when it has returned every
\* turn of both loops was begun and message.delete() was called on every
\* message the fetches returned; and it always returns (it has no state in
\* which an error leaves it).
C36_SweepBestEffort ==
  /\ sweepState \in {"idle", "opening", "deleting", "returned"}
  /\ (sweepState = "returned" /\ sweepAt > 0) =>
       /\ visited = Turns
       /\ attempted = listed
  /\ sweepState = "deleting" => sweepQueue # {}

\* The sweep returned after a channel it could not open and a message it
\* could not delete, with a later message deleted.
C36_Witness ==
  /\ sweepState = "returned"
  /\ \E t \in Turns : \A m \in Msgs : <<t, m>> \notin listed
  /\ \E t \in Turns, m, n \in Msgs :
       /\ m < n /\ <<t, m>> \in attempted /\ m \in dmExists[UserOf(t)]
       /\ <<t, n>> \in attempted /\ n \notin dmExists[UserOf(t)]

----------------------------------------------------------------------------
\* The OCR service (OCRService.initialize, extractText), from the start of
\* the process to its shutdown.

\* ocrService.initialize(), called by initializeServices in the ready
\* handler, up to its await: nothing to do when initialized, else
\* createWorker is awaited.
Initialize ==
  /\ ocrPc[0] = "idle"
  /\ ocrPc' = [ocrPc EXCEPT ![0] = IF initialized THEN "returned" ELSE "creating"]
  /\ UNCHANGED <<worker, initialized, created, usedWorker>>

\* ocrService.extractText(path), called by processImage of handler c, up to
\* its first await: initialize() when not initialized (and in it
\* createWorker), else this.worker.recognize.
ExtractText(c) ==
  /\ c \in Handlers
  /\ ocrPc[c] = "idle"
  /\ IF initialized
     THEN /\ ocrPc' = [ocrPc EXCEPT ![c] = "recognizing"]
          /\ usedWorker' = [usedWorker EXCEPT ![c] = worker]
     ELSE /\ ocrPc' = [ocrPc EXCEPT ![c] = "creating"]
          /\ UNCHANGED usedWorker
  /\ UNCHANGED <<worker, initialized, created>>

\* await createWorker('eng') settles in initialize(): the worker is stored
\* and initialized set; extractText goes on to recognize.  A rejection is
\* rethrown to the caller.
CreateWorkerSettles(c, ok) ==
  /\ ocrPc[c] = "creating"
  /\ IF ok
     THEN /\ created' = created + 1
          /\ worker' = created + 1
          /\ initialized' = TRUE
          /\ ocrPc' = [ocrPc EXCEPT ![c] = IF c = 0 THEN "returned" ELSE "recognizing"]
          /\ usedWorker' = [usedWorker EXCEPT ![c] = IF c = 0 THEN @ ELSE created + 1]
     ELSE /\ ocrPc' = [ocrPc EXCEPT ![c] = "failed"]
          /\ UNCHANGED <<worker, initialized, created, usedWorker>>

\* await this.worker.recognize(...) settles; the handler's next image may
\* call extractText again.
RecognizeSettles(c) ==
  /\ ocrPc[c] = "recognizing"
  /\ ocrPc' = [ocrPc EXCEPT ![c] = "idle"]
  /\ UNCHANGED <<worker, initialized, created, usedWorker>>

NextOcr ==
  \/ Initialize
       /\ UNCHANGED <<pipeline, sched, classifier, channel, interaction, received, sweep, shutdown>>
  \/ \E c \in Handlers :
       /\ ExtractText(c)
       /\ UNCHANGED <<pipeline, sched, classifier, channel, interaction, received, sweep, shutdown>>
  \/ \E c \in OcrCallers, ok \in BOOLEAN :
       /\ CreateWorkerSettles(c, ok)
       /\ UNCHANGED <<pipeline, sched, classifier, channel, interaction, received, sweep, shutdown>>
  \/ \E c \in Handlers :
       /\ RecognizeSettles(c)
       /\ UNCHANGED <<pipeline, sched, classifier, channel, interaction, received, sweep, shutdown>>

\* The startup initialization and the extractions of the handlers,
\* interleaved at their awaits.
SpecOcr == Init /\ [][NextOcr]_vars

\* C37: at most one OCR worker is created between two terminations, under
\* any interleaving of initialize() and extractText(): createWorker returns
\* a worker at most once and every recognize call goes to that worker.
C37_OneWorker ==
  /\ created <= 1
  /\ \A c \in Handlers : ocrPc[c] = "recognizing" => usedWorker[c] = 1

----------------------------------------------------------------------------
\* Shutdown (shutdown(), the handler of SIGINT, SIGTERM and uncaughtException).

\* The steps of shutdown, in the order of its body.
ShutdownSteps == <<"cleanup", "terminate", "disconnect", "destroy">>

\* shutdown() is triggered, for the r-th time, and runs to its first await:
\* dmCleanupService.cleanup(), then ocrService.terminate() is called and
\* awaited.  Nothing keeps a second run from starting while the first awaits.
Shutdown(r) ==
  /\ exitCode = Undefined
  /\ shPc[r] = "idle"
  /\ \A q \in Runs : q < r => shPc[q] # "idle"
  /\ steps' = steps \o << <<r, "cleanup">>, <<r, "terminate">> >>
  /\ shPc' = [shPc EXCEPT ![r] = "terminating"]
  /\ UNCHANGED exitCode

\* await ocrService.terminate() settles: databaseService.disconnect() is
\* called and awaited; a rejection goes to the catch, which exits with 1.
TerminateSettles(r, ok) ==
  /\ exitCode = Undefined
  /\ shPc[r] = "terminating"
  /\ IF ok
     THEN /\ steps' = Append(steps, <<r, "disconnect">>)
          /\ shPc' = [shPc EXCEPT ![r] = "disconnecting"]
          /\ UNCHANGED exitCode
     ELSE /\ shPc' = [shPc EXCEPT ![r] = "failed"]
          /\ exitCode' = 1
          /\ UNCHANGED steps

\* await databaseService.disconnect() settles: client.destroy(), then
\* process.exit(0); a rejection, or a throw of destroy, goes to the catch.
DisconnectSettles(r, ok, destroyed) ==
  /\ exitCode = Undefined
  /\ shPc[r] = "disconnecting"
  /\ IF ok
     THEN /\ steps' = Append(steps, <<r, "destroy">>)
          /\ shPc' = [shPc EXCEPT ![r] = IF destroyed THEN "completed" ELSE "failed"]
          /\ exitCode' = IF destroyed THEN 0 ELSE 1
     ELSE /\ shPc' = [shPc EXCEPT ![r] = "failed"]
          /\ exitCode' = 1
          /\ UNCHANGED steps

NextShutdown ==
  \/ \E r \in Runs :
       /\ Shutdown(r)
       /\ UNCHANGED <<pipeline, sched, classifier, channel, interaction, received, sweep, ocr>>
  \/ \E r \in Runs, ok \in BOOLEAN :
       /\ TerminateSettles(r, ok)
       /\ UNCHANGED <<pipeline, sched, classifier, channel, interaction, received, sweep, ocr>>
  \/ \E r \in Runs, ok, destroyed \in BOOLEAN :
       /\ DisconnectSettles(r, ok, destroyed)
       /\ UNCHANGED <<pipeline, sched, classifier, channel, interaction, received, sweep, ocr>>

\* The signals and uncaught exceptions of one process, until it exits.
SpecShutdown == Init /\ [][NextShutdown]_vars

\* The steps run r has executed, in order.
RunSteps(r) ==
  LET mine == SelectSeq(steps, LAMBDA e : e[1] = r) IN
    [k \in 1..Len(mine) |-> mine[k][2]]

\* What the process exits with: 0 after a run did all four steps, 1 after a
\* run failed; a failed run has skipped its later steps; nothing runs after
\* the exit.
ExitCodes ==
  /\ exitCode = 0 =>
       \E r \in Runs : shPc[r] = "completed" /\ RunSteps(r) = ShutdownSteps
  /\ exitCode = 1 => \E r \in Runs : shPc[r] = "failed"
  /\ \A r \in Runs : shPc[r] \in {"completed", "failed"} => exitCode # Undefined

\* C38: the steps run in the order cleanup, terminate,
\* disconnect, destroy, then exit 0; a failed step skips the later ones and
\* exits 1; and each step is executed at most once, however often shutdown
\* is triggered.
C38_ShutdownOnce ==
  /\ ExitCodes
  /\ \E n \in 0..Len(ShutdownSteps) :
       [k \in 1..Len(steps) |-> steps[k][2]] = SubSeq(ShutdownSteps, 1, n)

====
